---- MODULE Spec2Model ----
(***************************************************************************)
(* A model of uxml.mjs: the UXML node tree (class UXMLNode) with its        *)
(* double-linked child lists, structural mutation calls and null-safe      *)
(* navigation calls; the parser (class UXMLParser), one main-loop          *)
(* iteration per step; and the formatter (class UXMLFormatter).            *)
(***************************************************************************)
EXTENDS Integers, Sequences, FiniteSets, TLC

(* ---- bounds ---------------------------------------------------------- *)
NumTags == 3
MaxCalls == 4
MaxDeepCalls == 5
MaxCount == 2
MaxTextLen == 4
MaxPieces == 4
MaxRun == 3
MaxNodes == 4
MaxName == 3
MaxGap == 5

(* ---- node identities ------------------------------------------------- *)
\* JavaScript's null, the initial value of every link field.
null == -1
\* The module-level singleton `nullNode`.
nullNode == 0
Tags == 1 .. NumTags
\* One node that is not a Tag, a Text node.
Leaves == {NumTags + 1}
Nodes == {nullNode} \cup Tags \cup Leaves
Refs == Nodes \cup {null}

\* UXML.nodeType
tag == "tag"
text == "text"
cdata == "cdata"
comment == "comment"
nul == "nul"

VARIABLES
  type,          \* type of every node, fixed by the constructor
  name,          \* name of every Tag
  superNode, previousNode, nextNode, firstNode, lastNode,
  size,
  call,          \* the last call made: [op, self, node, ref], see Describe
  thrown,        \* the exception the last call threw, or "none"
  result,        \* the value the last navigation call returned
  calls,         \* the number of mutation calls made so far
  old,           \* the link fields as they were when the last call was made
  value,         \* value of every Text, Cdata and Comment node
  attributes,    \* attribute list of every Tag, in insertion order
  input,         \* the string given to UXML.parse
  parser         \* the local variables of the running UXMLParser.parse

links == <<superNode, previousNode, nextNode, firstNode, lastNode, size>>
\* What only the parser and the formatter read.
texts == <<value, attributes, input, parser>>
vars == <<type, name, superNode, previousNode, nextNode, firstNode, lastNode,
          size, call, thrown, result, calls, old, value, attributes, input,
          parser>>

\* The fields of all nodes gathered in one record; "thrown" is the pending
\* exception of the call being executed.
Heap ==
  [superNode |-> superNode, previousNode |-> previousNode,
   nextNode |-> nextNode, firstNode |-> firstNode, lastNode |-> lastNode,
   size |-> size, thrown |-> "none"]

Throw(h, e) == IF h.thrown # "none" THEN h ELSE [h EXCEPT !.thrown = e]

\* obj.field = val with the link fields of nullNode writable
Set_writable(h, field, obj, val) ==
  IF h.thrown # "none" THEN h
  ELSE IF obj = null THEN Throw(h, "TypeError")
  ELSE [h EXCEPT ![field][obj] = val]

\* obj.field = val.  Assigning through null is a TypeError; the link fields
\* of nullNode are defined non-writable, and the class body is strict code,
\* so assigning one is a TypeError as well.
Set(h, field, obj, val) ==
  IF h.thrown # "none" THEN h
  ELSE IF obj = null \/ obj = nullNode THEN Throw(h, "TypeError")
  ELSE [h EXCEPT ![field][obj] = val]

\* --obj.size / ++obj.size
AddSize(h, obj, d) ==
  IF h.thrown # "none" THEN h
  ELSE IF obj = null THEN Throw(h, "TypeError")
  ELSE [h EXCEPT !.size[obj] = @ + d]

detach(h, self) ==
  LET prev == h.previousNode[self]
      next == h.nextNode[self]
      sup == h.superNode[self]
      h1 == IF prev = null THEN Set(h, "firstNode", sup, next)
            ELSE Set(h, "nextNode", prev, next)
      h2 == IF next = null THEN Set(h1, "lastNode", sup, prev)
            ELSE Set(h1, "previousNode", next, prev)
      h3 == Set(h2, "superNode", self, null)
      h4 == Set(h3, "previousNode", self, null)
      h5 == Set(h4, "nextNode", self, null)
  IN AddSize(h5, sup, -1)

\* append without the check of the receiver's type
append_unchecked(h, self, node) ==
  LET h1 == IF h.superNode[node] # null THEN detach(h, node) ELSE h
      h2 == Set(h1, "superNode", node, self)
      h3 == Set(h2, "previousNode", node, h2.lastNode[self])
      h4 == IF h3.lastNode[self] = null
            THEN Set(h3, "firstNode", self, node)
            ELSE Set(h3, "nextNode", h3.lastNode[self], node)
      h5 == Set(h4, "nextNode", node, null)
      h6 == Set(h5, "lastNode", self, node)
  IN AddSize(h6, self, 1)

append(h, self, node) ==
  IF type[self] # tag THEN Throw(h, "TypeError")
  ELSE
    LET h1 == IF h.superNode[node] # null THEN detach(h, node) ELSE h
        h2 == Set(h1, "superNode", node, self)
        h3 == Set(h2, "previousNode", node, h2.lastNode[self])
        h4 == IF h3.lastNode[self] = null
              THEN Set(h3, "firstNode", self, node)
              ELSE Set(h3, "nextNode", h3.lastNode[self], node)
        h5 == Set(h4, "nextNode", node, null)
        h6 == Set(h5, "lastNode", self, node)
    IN AddSize(h6, self, 1)

\* The part of insert after the reference node is settled.
insertBefore(h, self, node, ref) ==
  LET h1 == IF h.superNode[node] # null THEN detach(h, node) ELSE h
      h2 == Set(h1, "superNode", node, self)
      h3 == Set(h2, "previousNode", node, h2.previousNode[ref])
      h4 == IF h3.previousNode[ref] = null
            THEN Set(h3, "firstNode", self, node)
            ELSE Set(h3, "nextNode", h3.previousNode[node], node)
      h5 == Set(h4, "nextNode", node, ref)
      h6 == Set(h5, "previousNode", ref, node)
  IN AddSize(h6, self, 1)

\* insert whose omitted reference means "at the end"
insert_appends(h, self, node, ref) ==
  IF type[self] # tag THEN Throw(h, "TypeError")
  ELSE IF ref = null THEN append(h, self, node)
  ELSE IF h.superNode[ref] # self THEN Throw(h, "RangeError")
  ELSE insertBefore(h, self, node, ref)

\* insert without the check that ref is a child of the receiver
insert_anyRef(h, self, node, ref) ==
  IF type[self] # tag THEN Throw(h, "TypeError")
  ELSE IF ref = null
    THEN IF h.firstNode[self] = null THEN append(h, self, node)
         ELSE insertBefore(h, self, node, h.firstNode[self])
    ELSE insertBefore(h, self, node, ref)

\* ref = null stands for the omitted argument (its default value).
insert(h, self, node, ref) ==
  IF type[self] # tag THEN Throw(h, "TypeError")
  ELSE IF ref = null
    THEN IF h.firstNode[self] = null THEN append(h, self, node)
         ELSE insertBefore(h, self, node, h.firstNode[self])
    ELSE IF h.superNode[ref] # self THEN Throw(h, "RangeError")
         ELSE insertBefore(h, self, node, ref)

\* The scan of remove: the first node equal to `node` met from iter on,
\* following nextNode; fuel bounds the scan of a cyclic list.
RECURSIVE removeScan(_, _, _, _)
removeScan(h, iter, node, fuel) ==
  IF iter = null THEN "absent"
  ELSE IF iter = node THEN "found"
  ELSE IF fuel = 0 THEN "diverges"
  ELSE removeScan(h, h.nextNode[iter], node, fuel - 1)

remove(h, self, node) ==
  IF type[self] # tag THEN Throw(h, "TypeError")
  ELSE
    LET r == removeScan(h, h.firstNode[self], node, Cardinality(Nodes))
    IN IF r = "found" THEN detach(h, node)
       ELSE IF r = "diverges" THEN Throw(h, "diverges")
       ELSE h

(* ---- navigation ------------------------------------------------------ *)
\* Outcomes of a navigation call that are not a node: a loop that never
\* ends (possible only on a cyclic list), a thrown RangeError, and a
\* TypeError (a method called on JavaScript's null).
diverges == -2
rangeError == -3
typeError == -4
Failures == {diverges, rangeError, typeError}

\* A bound no terminating loop over the nodes exceeds.
Fuel == (Cardinality(Nodes) + 1) * (MaxCount + 2)

Link(h, dir, n) ==
  IF dir = -1 THEN h.previousNode[n]
  ELSE IF dir = 0 THEN h.superNode[n]
  ELSE h.nextNode[n]

\* node.name, which only a Tag has
undefined == "undefined"
NameOf(n) == IF n \in Tags THEN name[n] ELSE undefined

RECURSIVE navigateLoop(_, _, _, _)
navigateLoop(h, dir, ret, num) ==
  IF num = 0 THEN ret
  ELSE LET r == Link(h, dir, ret)
       IN IF r = null THEN nullNode ELSE navigateLoop(h, dir, r, num - 1)

navigate(h, self, dir, num) ==
  IF self \in Failures THEN self
  ELSE IF self = null THEN typeError
  ELSE IF num < 0 THEN rangeError
  ELSE navigateLoop(h, dir, self, num)

\* A filter is a number, [num |-> n], or a string, [str |-> s].
IsNumber(filter) == "num" \in DOMAIN filter
Num(n) == [num |-> n]
Str(s) == [str |-> s]

RECURSIVE navigateTagLoop(_, _, _, _, _)
navigateTagLoop(h, dir, ret, filter, fuel) ==
  LET r == Link(h, dir, ret)
  IN IF r = null THEN nullNode
     ELSE IF fuel = 0 THEN diverges
     ELSE IF dir # 0 /\ type[r] # tag
       THEN navigateTagLoop(h, dir, r, filter, fuel - 1)
     ELSE IF IsNumber(filter)
       THEN IF filter.num - 1 = 0 THEN r
            ELSE navigateTagLoop(h, dir, r, Num(filter.num - 1), fuel - 1)
     ELSE IF filter.str = NameOf(r) THEN r
     ELSE navigateTagLoop(h, dir, r, filter, fuel - 1)

navigateTag(h, self, dir, filter) ==
  IF self \in Failures THEN self
  ELSE IF self = null THEN typeError
  ELSE IF IsNumber(filter) /\ filter.num = 0 THEN self
  ELSE IF IsNumber(filter) /\ filter.num < 0 THEN rangeError
  ELSE navigateTagLoop(h, dir, self, filter, Fuel)

\* first without the `|| nullNode`
first_orNull(h, self) ==
  IF self \in Failures THEN self
  ELSE IF self = null THEN typeError
  ELSE h.firstNode[self]

first(h, self) ==
  IF self \in Failures THEN self
  ELSE IF self = null THEN typeError
  ELSE IF h.firstNode[self] # null THEN h.firstNode[self] ELSE nullNode

last(h, self) ==
  IF self \in Failures THEN self
  ELSE IF self = null THEN typeError
  ELSE IF h.lastNode[self] # null THEN h.lastNode[self] ELSE nullNode

\* The common body of firstTag (dir = 1) and lastTag (dir = -1).
endTag(h, self, dir, str) ==
  LET r0 == IF dir = 1 THEN first(h, self) ELSE last(h, self)
      r1 == IF r0 \in Failures \/ r0 = null THEN navigateTag(h, r0, dir, Num(1))
            ELSE IF type[r0] # tag THEN navigateTag(h, r0, dir, Num(1))
            ELSE r0
  IN IF str = "" THEN r1
     ELSE IF r1 \in Failures \/ r1 = null THEN navigateTag(h, r1, dir, Str(str))
     ELSE IF str # NameOf(r1) THEN navigateTag(h, r1, dir, Str(str))
     ELSE r1

firstTag(h, self, str) == endTag(h, self, 1, str)
lastTag(h, self, str) == endTag(h, self, -1, str)

nth(h, self, idx) == navigate(h, first(h, self), 1, idx)

RECURSIVE nthTagLoop(_, _, _, _)
nthTagLoop(h, ret, idx, str) ==
  IF idx = 0 THEN ret
  ELSE nthTagLoop(h, navigateTag(h, ret, 1, Str(str)), idx - 1, str)

nthTag(h, self, idx, str) ==
  LET ret == firstTag(h, self, str)
  IN IF str # ""
       THEN IF ret \in Failures THEN ret
            ELSE IF idx < 0 THEN rangeError
            ELSE nthTagLoop(h, ret, idx, str)
       ELSE navigateTag(h, ret, 1, Num(idx))

isNull(n) == type[n] = nul

\* A navigation call: the method and its argument (a count, an index or a
\* name; nthTag takes an index and a name).
Counts == -1 .. MaxCount
Names == {"a", "b"}
Queries ==
  [op : {"super", "previous", "next", "nth"}, num : Counts, str : {""}]
    \cup [op : {"superTag", "previousTag", "nextTag"}, num : Counts, str : {""}]
    \cup [op : {"superTag", "previousTag", "nextTag"}, num : {0}, str : Names]
    \cup [op : {"first", "last"}, num : {0}, str : {""}]
    \cup [op : {"firstTag", "lastTag"}, num : {0}, str : Names \cup {""}]
    \cup [op : {"nthTag"}, num : Counts, str : Names \cup {""}]

Filter(q) == IF q.str = "" THEN Num(q.num) ELSE Str(q.str)

Navigate(h, self, q) ==
  CASE q.op = "super" -> navigate(h, self, 0, q.num)
    [] q.op = "previous" -> navigate(h, self, -1, q.num)
    [] q.op = "next" -> navigate(h, self, 1, q.num)
    [] q.op = "superTag" -> navigateTag(h, self, 0, Filter(q))
    [] q.op = "previousTag" -> navigateTag(h, self, -1, Filter(q))
    [] q.op = "nextTag" -> navigateTag(h, self, 1, Filter(q))
    [] q.op = "first" -> first(h, self)
    [] q.op = "last" -> last(h, self)
    [] q.op = "firstTag" -> firstTag(h, self, q.str)
    [] q.op = "lastTag" -> lastTag(h, self, q.str)
    [] q.op = "nth" -> nth(h, self, q.num)
    [] q.op = "nthTag" -> nthTag(h, self, q.num, q.str)

(* ---- iterators --------------------------------------------------------- *)
\* *nodes (): the nodes yielded one after the other, <<diverges>> when the
\* loop never ends.
RECURSIVE nodesLoop(_, _, _)
nodesLoop(h, node, fuel) ==
  IF node \in Failures THEN <<diverges>>
  ELSE IF isNull(node) THEN <<>>
  ELSE IF fuel = 0 THEN <<diverges>>
  ELSE LET rest == nodesLoop(h, navigate(h, node, 1, 1), fuel - 1)
       IN IF rest = <<diverges>> THEN rest ELSE <<node>> \o rest

nodes(h, self) == nodesLoop(h, first(h, self), Cardinality(Nodes))

\* *tags (name): name "" stands for the default, every Tag.
RECURSIVE tagsLoop(_, _, _, _)
tagsLoop(h, node, str, fuel) ==
  IF node \in Failures THEN <<diverges>>
  ELSE IF isNull(node) THEN <<>>
  ELSE IF fuel = 0 THEN <<diverges>>
  ELSE LET rest == tagsLoop(h, navigateTag(h, node, 1,
                                           IF str = "" THEN Num(1)
                                           ELSE Str(str)),
                            str, fuel - 1)
       IN IF rest = <<diverges>> THEN rest ELSE <<node>> \o rest

tags(h, self, str) == tagsLoop(h, firstTag(h, self, str), str, Cardinality(Nodes))

(* ---- the state machine ----------------------------------------------- *)
\* The caller makes one call at a time: `call` is the call that has just
\* returned or thrown, NoCall once the caller has taken its outcome.
NoCall ==
  [op |-> "none", self |-> null, node |-> null, ref |-> null,
   num |-> 0, str |-> ""]

\* The value of `old` while no call is recorded.
NoHeap ==
  [superNode |-> <<>>, previousNode |-> <<>>, nextNode |-> <<>>,
   firstNode |-> <<>>, lastNode |-> <<>>, size |-> <<>>, thrown |-> "none"]

Mutation(op, self, node, ref) ==
  [op |-> op, self |-> self, node |-> node, ref |-> ref, num |-> 0, str |-> ""]

Init ==
  /\ type = [n \in Nodes |-> IF n = nullNode THEN nul
                             ELSE IF n \in Tags THEN tag ELSE text]
  /\ name = [n \in Tags |-> IF n = 1 THEN "a" ELSE "b"]
  /\ superNode = [n \in Nodes |-> null]
  /\ previousNode = [n \in Nodes |-> null]
  /\ nextNode = [n \in Nodes |-> null]
  /\ firstNode = [n \in Nodes |-> null]
  /\ lastNode = [n \in Nodes |-> null]
  /\ size = [n \in Nodes |-> 0]
  /\ call = NoCall
  /\ thrown = "none"
  /\ result = null
  /\ calls = 0
  /\ old = NoHeap
  /\ value = <<>>
  /\ attributes = <<>>
  /\ input = <<>>
  /\ parser = <<>>

\* The state after a mutation call that ended with heap h; limit bounds the
\* number of mutation calls of a run.
Commit(h, c, limit) ==
  /\ call = NoCall
  /\ calls < limit
  /\ calls' = calls + 1
  /\ superNode' = h.superNode
  /\ previousNode' = h.previousNode
  /\ nextNode' = h.nextNode
  /\ firstNode' = h.firstNode
  /\ lastNode' = h.lastNode
  /\ size' = h.size
  /\ thrown' = h.thrown
  /\ call' = c
  /\ result' = null
  /\ old' = Heap
  /\ UNCHANGED <<type, name, texts>>

CallAppend(self, node) ==
  Commit(append(Heap, self, node), Mutation("append", self, node, null),
         MaxCalls)

CallInsert(self, node, ref) ==
  Commit(insert(Heap, self, node, ref), Mutation("insert", self, node, ref),
         MaxCalls)

CallDetach(self) ==
  Commit(detach(Heap, self), Mutation("detach", self, null, null), MaxCalls)

CallRemove(self, node) ==
  Commit(remove(Heap, self, node), Mutation("remove", self, node, null),
         MaxCalls)

\* A navigation call; it reads the tree and changes nothing.
CallNavigate(self, q) ==
  LET r == Navigate(Heap, self, q)
  IN /\ call = NoCall
     /\ call' = [op |-> q.op, self |-> null, node |-> null, ref |-> null,
                 num |-> q.num, str |-> q.str]
     /\ thrown' = IF r = rangeError THEN "RangeError"
                  ELSE IF r = typeError THEN "TypeError"
                  ELSE IF r = diverges THEN "diverges"
                  ELSE "none"
     /\ result' = IF r \in Failures THEN null ELSE r
     /\ UNCHANGED <<type, name, links, calls, old, texts>>

\* The caller takes the outcome of the call.
Return ==
  /\ call # NoCall
  /\ call' = NoCall
  /\ thrown' = "none"
  /\ result' = null
  /\ old' = NoHeap
  /\ UNCHANGED <<type, name, links, calls, texts>>

Next ==
  \/ \E self \in Nodes, node \in Nodes : CallAppend(self, node)
  \/ \E self \in Nodes, node \in Nodes, ref \in Refs : CallInsert(self, node, ref)
  \/ \E self \in Nodes : CallDetach(self)
  \/ \E self \in Nodes, node \in Nodes : CallRemove(self, node)
  \/ \E self \in Nodes, q \in Queries : CallNavigate(self, q)
  \/ Return

Spec == Init /\ [][Next]_vars

\* Longer runs of insert and detach calls alone.
DeepInsert(self, node, ref) ==
  Commit(insert(Heap, self, node, ref), Mutation("insert", self, node, ref),
         MaxDeepCalls)

DeepDetach(self) ==
  Commit(detach(Heap, self), Mutation("detach", self, null, null),
         MaxDeepCalls)

NextDeep ==
  \/ \E self \in Tags, node \in Tags, ref \in Tags \cup {null} :
       DeepInsert(self, node, ref)
  \/ \E self \in Tags : DeepDetach(self)
  \/ Return

SpecDeep == Init /\ [][NextDeep]_vars

(* ---- iteration with a loop body that changes the tree ------------------ *)
\* `for (const node of self.nodes ()) body (node)`, which is forEach too:
\* call.self is the receiver, call.node the local `node` of the generator,
\* suspended at its yield (nullNode once the loop is over), `result` the
\* nodes yielded so far and `old` the links when the loop began.
Iteration(self, node) ==
  [op |-> "nodes", self |-> self, node |-> node, ref |-> null, num |-> 0,
   str |-> ""]

\* The links and the pending exception become those of h.
LinksBecome(h) ==
  /\ superNode' = h.superNode
  /\ previousNode' = h.previousNode
  /\ nextNode' = h.nextNode
  /\ firstNode' = h.firstNode
  /\ lastNode' = h.lastNode
  /\ size' = h.size
  /\ thrown' = h.thrown

\* self.nodes () up to its first yield: `let node = this.first ()`.
IterateStart(self) ==
  /\ call = NoCall
  /\ \E node \in {first(Heap, self)} :
       /\ call' = Iteration(self, node)
       /\ result' = IF isNull(node) THEN <<>> ELSE <<node>>
  /\ old' = Heap
  /\ UNCHANGED <<type, name, links, thrown, calls, texts>>

\* What the loop body does with the node just yielded: nothing, detach it,
\* or append it to the tag q.
body(h, node, how, q) ==
  IF how = "detach" THEN detach(h, node)
  ELSE IF how = "append" THEN append(h, q, node)
  ELSE h

\* The resumption of the generator: `node = node.next ()` and the test of
\* the loop.
resume(h, node) == navigate(h, node, 1, 1)

\* One round of the loop: the body, then the generator up to its next
\* yield.  An exception thrown by the body ends the loop.
IterateRound(how, q) ==
  /\ call.op = "nodes" /\ ~isNull(call.node) /\ thrown = "none"
  /\ Len(result) <= Cardinality(Nodes)
  /\ \E h \in {body(Heap, call.node, how, q)} :
       /\ LinksBecome(h)
       /\ \E node \in {IF h.thrown # "none" THEN nullNode
                       ELSE resume(h, call.node)} :
            /\ call' = Iteration(call.self, node)
            /\ result' = IF isNull(node) THEN result ELSE Append(result, node)
  /\ UNCHANGED <<type, name, calls, old, texts>>

BodyKinds == {"keep", "detach", "append"}

NextIterate ==
  \/ \E self \in Tags, node \in Nodes \ {nullNode} : CallAppend(self, node)
  \/ \E self \in Tags : IterateStart(self)
  \/ \E how \in BodyKinds, q \in Tags : IterateRound(how, q)
  \/ Return

SpecIterate == Init /\ [][NextIterate]_vars

(* ---- strings --------------------------------------------------------- *)
\* A string is the sequence of its character codes; positions count from 0
\* as in the source.  Ascii is the code of each character the model writes.
Ascii ==
  (" " :> 32) @@ ("!" :> 33) @@ ("\"" :> 34) @@ ("#" :> 35) @@ ("&" :> 38)
    @@ ("'" :> 39) @@ ("-" :> 45) @@ ("/" :> 47) @@ ("0" :> 48)
    @@ ("1" :> 49) @@ ("5" :> 53) @@ ("6" :> 54) @@ (":" :> 58)
    @@ (";" :> 59) @@ ("<" :> 60) @@ ("=" :> 61) @@ (">" :> 62)
    @@ ("?" :> 63) @@ ("A" :> 65) @@ ("C" :> 67) @@ ("D" :> 68)
    @@ ("R" :> 82) @@ ("T" :> 84) @@ ("[" :> 91) @@ ("]" :> 93)
    @@ ("a" :> 97) @@ ("b" :> 98) @@ ("c" :> 99) @@ ("d" :> 100)
    @@ ("f" :> 102)
    @@ ("g" :> 103) @@ ("l" :> 108) @@ ("m" :> 109) @@ ("o" :> 111)
    @@ ("p" :> 112) @@ ("q" :> 113) @@ ("r" :> 114) @@ ("s" :> 115)
    @@ ("t" :> 116) @@ ("u" :> 117) @@ ("x" :> 120) @@ ("z" :> 122)

\* The string written as the tuple t of its characters.
S(t) == [i \in 1 .. Len(t) |-> Ascii[t[i]]]

chrLT == Ascii["<"]
chrAK == Ascii["?"]
chrEX == Ascii["!"]
chrMI == Ascii["-"]
chrCL == Ascii[":"]
chrEQ == Ascii["="]
chrDQ == Ascii["\""]
chrSQ == Ascii["'"]
chrLB == Ascii["["]
chrRB == Ascii["]"]
chrSL == Ascii["/"]
chrGT == Ascii[">"]
chrAM == Ascii["&"]

\* What charCodeAt returns past the end of the string; every comparison
\* with NaN is false.
NaN == -9
charCodeAt(str, i) == IF 0 <= i /\ i < Len(str) THEN str[i + 1] ELSE NaN
LE32(c) == c # NaN /\ c <= 32
GT32(c) == c # NaN /\ c > 32

Clamp(str, i) == IF i < 0 THEN 0 ELSE IF i > Len(str) THEN Len(str) ELSE i
substring(str, a, b) ==
  LET x == Clamp(str, a)
      y == Clamp(str, b)
  IN IF x <= y THEN SubSeq(str, x + 1, y) ELSE SubSeq(str, y + 1, x)

RECURSIVE indexOf(_, _, _)
indexOf(str, c, from) ==
  IF from >= Len(str) THEN -1
  ELSE IF str[from + 1] = c THEN from
  ELSE indexOf(str, c, from + 1)

\* JavaScript's null and a thrown RangeError where a string is expected.
nullStr == <<null>>
rangeErrorStr == <<rangeError>>

\* parseInt (str, radix): leading white space, a sign, for radix 16 a 0x
\* prefix, then the longest run of digits of the radix; NaN without a digit.
IsStrWhiteSpace(c) == c \in {9, 10, 11, 12, 13, 32}
DigitValue(c) ==
  IF 48 <= c /\ c <= 57 THEN c - 48
  ELSE IF 97 <= c /\ c <= 122 THEN c - 87
  ELSE IF 65 <= c /\ c <= 90 THEN c - 55
  ELSE 36

RECURSIVE parseDigits(_, _, _, _, _)
parseDigits(str, i, radix, acc, any) ==
  IF i < Len(str) /\ DigitValue(str[i + 1]) < radix
  THEN parseDigits(str, i + 1, radix, acc * radix + DigitValue(str[i + 1]), TRUE)
  ELSE [isNaN |-> ~any, num |-> acc]

RECURSIVE skipStrWhiteSpace(_, _)
skipStrWhiteSpace(str, i) ==
  IF i < Len(str) /\ IsStrWhiteSpace(str[i + 1])
  THEN skipStrWhiteSpace(str, i + 1) ELSE i

parseInt(str, radix) ==
  LET i0 == skipStrWhiteSpace(str, 0)
      neg == charCodeAt(str, i0) = Ascii["-"]
      i1 == IF neg \/ charCodeAt(str, i0) = 43 THEN i0 + 1 ELSE i0
      i2 == IF radix = 16 /\ charCodeAt(str, i1) = Ascii["0"]
                 /\ charCodeAt(str, i1 + 1) \in {Ascii["x"], 88}
            THEN i1 + 2 ELSE i1
      r == parseDigits(str, i2, radix, 0, FALSE)
  IN IF neg THEN [r EXCEPT !.num = 0 - @] ELSE r

\* Number.prototype.toString (10) of a code point
RECURSIVE toString10(_)
toString10(n) ==
  IF n < 10 THEN <<48 + n>> ELSE toString10(n \div 10) \o <<48 + (n % 10)>>

(* ---- entities: UXMLParser.unescape and UXMLFormatter.escape ----------- *)
\* The character of a named entity, NaN for a name that is none of the five.
Entity(ent) ==
  CASE ent = S(<<"l", "t">>) -> chrLT
    [] ent = S(<<"g", "t">>) -> chrGT
    [] ent = S(<<"q", "u", "o", "t">>) -> chrDQ
    [] ent = S(<<"a", "p", "o", "s">>) -> chrSQ
    [] ent = S(<<"a", "m", "p">>) -> chrAM
    [] OTHER -> NaN

\* unescape that fails on an entity name it does not know
RECURSIVE unescapeLoop_strict(_, _, _, _)
unescapeLoop_strict(str, out, from, idx) ==
  IF idx = -1 THEN out \o substring(str, from, Len(str))
  ELSE
    LET escStart == idx
        out1 == out \o substring(str, from, idx)
        semi == indexOf(str, Ascii[";"], idx + 1)
        ent == substring(str, escStart + 1, semi)
        idx2 == semi + 1
    IN IF semi = -1 THEN nullStr
       ELSE IF charCodeAt(ent, 0) = Ascii["#"]
         THEN LET codep == IF charCodeAt(ent, 1) = Ascii["x"]
                           THEN parseInt(substring(ent, 2, Len(ent)), 16)
                           ELSE parseInt(substring(ent, 1, Len(ent)), 10)
              IN IF codep.isNaN THEN nullStr
                 ELSE IF codep.num < 0 \/ codep.num > 1114111
                   THEN rangeErrorStr
                 ELSE unescapeLoop_strict(str, out1 \o <<codep.num>>, idx2,
                                          indexOf(str, chrAM, idx2))
       ELSE IF Entity(ent) # NaN
         THEN unescapeLoop_strict(str, out1 \o <<Entity(ent)>>, idx2,
                                  indexOf(str, chrAM, idx2))
       ELSE nullStr

\* One pass of the loop of unescape: out and from as the loop holds them,
\* idx the position of the next '&' or -1.
RECURSIVE unescapeLoop(_, _, _, _)
unescapeLoop(str, out, from, idx) ==
  IF idx = -1 THEN out \o substring(str, from, Len(str))
  ELSE
    LET escStart == idx
        out1 == out \o substring(str, from, idx)
        semi == indexOf(str, Ascii[";"], idx + 1)
        ent == substring(str, escStart + 1, semi)
        idx2 == semi + 1
    IN IF semi = -1 THEN nullStr
       ELSE IF charCodeAt(ent, 0) = Ascii["#"]
         THEN LET codep == IF charCodeAt(ent, 1) = Ascii["x"]
                           THEN parseInt(substring(ent, 2, Len(ent)), 16)
                           ELSE parseInt(substring(ent, 1, Len(ent)), 10)
              IN IF codep.isNaN THEN nullStr
                 ELSE IF codep.num < 0 \/ codep.num > 1114111
                   THEN rangeErrorStr
                 ELSE unescapeLoop(str, out1 \o <<codep.num>>, idx2,
                                   indexOf(str, chrAM, idx2))
       ELSE IF Entity(ent) # NaN
         THEN unescapeLoop(str, out1 \o <<Entity(ent)>>, idx2,
                           indexOf(str, chrAM, idx2))
       \* default: from = escStart, the entity stays in the text as it is
       ELSE unescapeLoop(str, out1, escStart, indexOf(str, chrAM, idx2))

unescape(str) == unescapeLoop(str, <<>>, 0, indexOf(str, chrAM, 0))

\* UXML.pattern.escape, the set of characters the pattern matches
pattern_escape == {chrLT, chrGT, chrDQ, chrSQ, chrAM}

\* regex.exec (str) of a global pattern: the position of the first match
\* at or after lastIndex, -1 for no match (which resets lastIndex to 0).
RECURSIVE exec(_, _, _)
exec(regex, str, lastIndex) ==
  IF lastIndex >= Len(str) THEN -1
  ELSE IF str[lastIndex + 1] \in regex THEN lastIndex
  ELSE exec(regex, str, lastIndex + 1)

EntityOf(c) ==
  CASE c = chrLT -> S(<<"&", "l", "t", ";">>)
    [] c = chrGT -> S(<<"&", "g", "t", ";">>)
    [] c = chrDQ -> S(<<"&", "q", "u", "o", "t", ";">>)
    [] c = chrSQ -> S(<<"&", "a", "p", "o", "s", ";">>)
    [] c = chrAM -> S(<<"&", "a", "m", "p", ";">>)
    [] OTHER -> S(<<"&", "#">>) \o toString10(c) \o S(<<";">>)

\* escape that leaves '&' as it is
RECURSIVE escapeLoop_keepAmp(_, _, _, _)
escapeLoop_keepAmp(str, regex, out, idx) ==
  LET match == exec(regex \ {chrAM}, str, idx)
  IN IF match = -1 THEN out \o substring(str, idx, Len(str))
     ELSE escapeLoop_keepAmp(str, regex,
            out \o substring(str, idx, match) \o EntityOf(str[match + 1]),
            match + 1)

RECURSIVE escapeLoop(_, _, _, _)
escapeLoop(str, regex, out, idx) ==
  LET match == exec(regex, str, idx)
  IN IF match = -1 THEN out \o substring(str, idx, Len(str))
     ELSE escapeLoop(str, regex,
            out \o substring(str, idx, match) \o EntityOf(str[match + 1]),
            match + 1)

escape(str, regex) == escapeLoop(str, regex, <<>>, 0)

(* ---- escape followed by unescape -------------------------------------- *)
\* The state with no node but nullNode, `new UXMLNode(UXML.nodeType.nul, "")`.
InitNoTree ==
  /\ type = (nullNode :> nul)
  /\ name = <<>>
  /\ value = (nullNode :> <<>>)
  /\ attributes = <<>>
  /\ superNode = (nullNode :> null)
  /\ previousNode = (nullNode :> null)
  /\ nextNode = (nullNode :> null)
  /\ firstNode = (nullNode :> null)
  /\ lastNode = (nullNode :> null)
  /\ size = (nullNode :> 0)
  /\ thrown = "none"
  /\ result = null
  /\ calls = 0
  /\ old = NoHeap

TextCall(op) == [NoCall EXCEPT !.op = op]

\* The strings escape is given: every string of up to MaxTextLen characters
\* over the five characters of the pattern and four others.
TextAlphabet ==
  {chrLT, chrGT, chrDQ, chrSQ, chrAM, Ascii[";"], Ascii["#"], Ascii["a"],
   Ascii["1"]}
Texts == UNION {[1 .. n -> TextAlphabet] : n \in 0 .. MaxTextLen}

InitEscape ==
  /\ InitNoTree
  /\ input \in Texts
  /\ parser = <<>>
  /\ call = NoCall

\* UXMLFormatter.escape (input, UXML.pattern.escape)
CallEscape ==
  /\ call = NoCall
  /\ call' = TextCall("escape")
  /\ result' = escape(input, pattern_escape)
  /\ UNCHANGED <<type, name, links, thrown, calls, old, texts>>

\* UXMLParser.unescape of what escape returned
CallUnescape ==
  /\ call = TextCall("escape")
  /\ call' = TextCall("unescape")
  /\ result' = unescape(result)
  /\ UNCHANGED <<type, name, links, thrown, calls, old, texts>>

NextEscape == CallEscape \/ CallUnescape

SpecEscape == InitEscape /\ [][NextEscape]_vars

(* ---- the parser: UXMLParser.parse ------------------------------------- *)
tknNone == 0
tknTagStart == 1
tknAttr == 2
tknAttrEq == 3
tknAttrVal == 4
tknTagClose == 5
tknTagEnd == 6
tknPi == 7
tknComment == 8
tknCdata == 9
tknText == 10

scopeDoc == 0
scopeTag == 1

\* UXML.charLut [toInteger (isFirst)][c]: the characters a name may start
\* with (isFirst) and go on with.
charLut(isFirst, c) ==
  \/ c = 45
  \/ 65 <= c /\ c <= 90
  \/ c = 95
  \/ 97 <= c /\ c <= 122
  \/ ~isFirst /\ 48 <= c /\ c <= 57

\* UXML.pattern.wspace
pattern_wspace == {9, 10, 13, 32}

\* str.replace (UXML.pattern.wspace, ' '): every run of white space becomes
\* one space.
RECURSIVE replaceWspace(_)
replaceWspace(str) ==
  IF str = <<>> THEN <<>>
  ELSE IF Head(str) \in pattern_wspace
    THEN IF Len(str) > 1 /\ str[2] \in pattern_wspace
         THEN replaceWspace(Tail(str))
         ELSE <<32>> \o replaceWspace(Tail(str))
  ELSE <<Head(str)>> \o replaceWspace(Tail(str))

\* The value of `doc` before a document is made, and a UXMLDocument.
NoDocument == [is |-> "undefined", root |-> null, pi |-> <<>>]
Document(root, pi) == [is |-> "UXMLDocument", root |-> root, pi |-> pi]

\* The local variables of parse as its declarations leave them; `token` is
\* the kind of the token last handled and `ret` the value the function
\* last called returned.
Locals ==
  [running |-> TRUE, pos |-> 0, chr |-> 0, p |-> 0, posNs |-> 0,
   decl |-> FALSE, scope |-> scopeDoc, wspaceTrail |-> FALSE,
   doc |-> NoDocument, superNode |-> null, root |-> null, currNode |-> null,
   currTag |-> <<>>, currAttr |-> <<>>, pi |-> <<>>, text |-> <<>>,
   thisPos |-> 0, token |-> tknNone, ret |-> TRUE]

NoParser == [Locals EXCEPT !.running = FALSE]

\* All fields of all nodes; "thrown" is the pending exception.
Store ==
  [type |-> type, name |-> name, value |-> value, attributes |-> attributes,
   superNode |-> superNode, previousNode |-> previousNode,
   nextNode |-> nextNode, firstNode |-> firstNode, lastNode |-> lastNode,
   size |-> size, thrown |-> "none"]

\* new UXMLNode(ty, data): the node made and the store holding it.
NewId(h) == Cardinality(DOMAIN h.type)
New(h, ty, data) ==
  LET n == NewId(h)
  IN [h EXCEPT !.type = @ @@ (n :> ty),
               !.name = IF ty = tag THEN @ @@ (n :> data) ELSE @,
               !.attributes = IF ty = tag THEN @ @@ (n :> <<>>) ELSE @,
               !.value = IF ty # tag THEN @ @@ (n :> data) ELSE @,
               !.superNode = @ @@ (n :> null),
               !.previousNode = @ @@ (n :> null),
               !.nextNode = @ @@ (n :> null),
               !.firstNode = @ @@ (n :> null),
               !.lastNode = @ @@ (n :> null),
               !.size = @ @@ (n :> 0)]

\* attributes.set (key, val) of the attribute map: a new key goes last, a
\* known key keeps its place.
RECURSIVE setAttribute(_, _, _)
setAttribute(attrs, key, val) ==
  IF attrs = <<>> THEN <<<<key, val>>>>
  ELSE IF Head(attrs)[1] = key THEN <<<<key, val>>>> \o Tail(attrs)
  ELSE <<Head(attrs)>> \o setAttribute(Tail(attrs), key, val)

Returns(l, val) == [l EXCEPT !.ret = val]

skipChar(l, num) ==
  [l EXCEPT !.pos = @ + num, !.chr = charCodeAt(input, l.pos + num)]

RECURSIVE skipSpace(_)
skipSpace(l) ==
  IF l.pos = Len(input) THEN Returns(l, FALSE)
  ELSE LET c == charCodeAt(input, l.pos)
       IN IF GT32(c) THEN Returns([l EXCEPT !.chr = c], TRUE)
          ELSE skipSpace([l EXCEPT !.chr = c, !.pos = @ + 1])

RECURSIVE skipTagLoop(_, _, _)
skipTagLoop(l, closing, start) ==
  IF l.pos = Len(input) THEN Returns(l, FALSE)
  ELSE
    LET c == charCodeAt(input, l.pos)
        l1 == [l EXCEPT !.chr = c]
    IN IF c = chrGT THEN Returns(l1, l.posNs # l.pos - 1)
       ELSE IF c = chrSL THEN Returns(l1, ~closing /\ l.posNs # l.pos - 1)
       ELSE IF LE32(c) THEN Returns(l1, ~closing /\ l.posNs # l.pos - 1)
       ELSE IF c = chrCL
         THEN IF l.posNs # 0 THEN Returns(l1, FALSE)
              ELSE IF l.pos = start THEN Returns(l1, FALSE)
              ELSE skipTagLoop([l1 EXCEPT !.posNs = l.pos, !.pos = @ + 1],
                               closing, start)
       ELSE IF c < 128 /\ ~charLut(l.pos = start, c) THEN Returns(l1, FALSE)
       ELSE skipTagLoop([l1 EXCEPT !.pos = @ + 1], closing, start)

skipTag(l, closing) == skipTagLoop(l, closing, l.pos)

RECURSIVE skipAttrLoop(_, _)
skipAttrLoop(l, start) ==
  IF l.pos = Len(input) THEN Returns(l, FALSE)
  ELSE
    LET c == charCodeAt(input, l.pos)
        l1 == [l EXCEPT !.chr = c]
    IN IF c = chrEQ THEN Returns(l1, l.posNs # l.pos - 1)
       ELSE IF c = chrCL
         THEN IF l.posNs # 0 THEN Returns(l1, FALSE)
              ELSE IF l.pos = start THEN Returns(l1, FALSE)
              ELSE skipAttrLoop([l1 EXCEPT !.posNs = l.pos, !.pos = @ + 1],
                                start)
       ELSE IF c < 128 /\ ~charLut(l.pos = start, c) THEN Returns(l1, FALSE)
       ELSE skipAttrLoop([l1 EXCEPT !.pos = @ + 1], start)

skipAttr(l) == skipAttrLoop(l, l.pos)

skipToValue(l) ==
  LET c == charCodeAt(input, l.pos)
  IN Returns([l EXCEPT !.chr = c], c = chrDQ \/ c = chrSQ)

RECURSIVE skipValue(_)
skipValue(l) ==
  IF l.pos = Len(input) THEN Returns(l, FALSE)
  ELSE IF charCodeAt(input, l.pos) = l.chr THEN Returns(l, TRUE)
  ELSE skipValue([l EXCEPT !.pos = @ + 1])

RECURSIVE skipText(_)
skipText(l) ==
  IF l.pos = Len(input) THEN Returns(l, FALSE)
  ELSE LET c == charCodeAt(input, l.pos)
       IN IF c = chrLT THEN Returns([l EXCEPT !.chr = c], TRUE)
          ELSE skipText([l EXCEPT !.chr = c, !.pos = @ + 1])

\* skipCDATA (mark = chrRB) and skipComment (mark = chrMI)
RECURSIVE skipToMark(_, _)
skipToMark(l, mark) ==
  IF l.pos = Len(input) THEN Returns(l, FALSE)
  ELSE LET c == charCodeAt(input, l.pos)
       IN IF c = mark /\ charCodeAt(input, l.pos + 1) = mark
               /\ charCodeAt(input, l.pos + 2) = chrGT
          THEN Returns([l EXCEPT !.chr = c], TRUE)
          ELSE skipToMark([l EXCEPT !.chr = c, !.pos = @ + 1], mark)

skipCDATA(l) == skipToMark(l, chrRB)
skipComment(l) == skipToMark(l, chrMI)

\* skipPi.  o, x, q and string are its local variables; piWord is the first
\* inner loop entered with chr the character at pos, piNext the end of its
\* body, piGap the second inner loop.
RECURSIVE piWord(_, _, _, _, _)
RECURSIVE piNext(_, _, _, _, _)
RECURSIVE piGap(_, _, _, _, _)
piWord(l, o, x, q, string) ==
  IF string /\ l.chr = q THEN piNext(l, o, x, q, FALSE)
  ELSE IF (~string /\ l.chr = chrDQ) \/ l.chr = chrSQ
    THEN piNext(l, o, x, l.chr, TRUE)
  ELSE IF ~string /\ l.chr = chrAK
    THEN IF x \/ charCodeAt(input, l.pos + 1) # chrGT THEN Returns(l, FALSE)
         ELSE Returns([l EXCEPT
                         !.decl = TRUE,
                         !.pi = Append(@, <<chrLT, chrAK>> \o o
                                            \o substring(input, l.p, l.pos)
                                            \o <<chrAK, chrGT>>),
                         !.pos = @ + 1], TRUE)
  ELSE IF ~string /\ l.chr = chrGT
    THEN IF ~x THEN Returns(l, FALSE)
         ELSE Returns([l EXCEPT
                         !.pi = Append(@, <<chrLT, chrEX>> \o o
                                            \o substring(input, l.p, l.pos))],
                      TRUE)
  ELSE piNext(l, o, x, q, string)

piNext(l, o, x, q, string) ==
  IF l.pos + 1 = Len(input) THEN Returns([l EXCEPT !.pos = @ + 1], FALSE)
  ELSE LET l1 == skipChar(l, 1)
       IN IF GT32(l1.chr) THEN piWord(l1, o, x, q, string)
          ELSE piGap(l1, o \o substring(input, l1.p, l1.pos), x, q, string)

piGap(l, o, x, q, string) ==
  IF l.pos + 1 = Len(input) THEN Returns([l EXCEPT !.pos = @ + 1], FALSE)
  ELSE LET l1 == skipChar(l, 1)
       IN IF LE32(l1.chr) THEN piGap(l1, o, x, q, string)
          ELSE piWord([l1 EXCEPT !.p = l1.pos],
                      IF string \/ (l1.chr # chrAK /\ l1.chr # chrGT)
                      THEN o \o <<32>> ELSE o,
                      x, q, string)

\* The first loop of skipPi, which skips the leading white space.
RECURSIVE piLead(_, _)
piLead(l, x) ==
  IF l.pos + 1 = Len(input) THEN Returns([l EXCEPT !.pos = @ + 1], FALSE)
  ELSE LET l1 == skipChar(l, 1)
       IN IF GT32(l1.chr) THEN piWord([l1 EXCEPT !.p = l1.pos], <<>>, x, NaN,
                                      FALSE)
          ELSE piLead(l1, x)

skipPi(l) == piLead(l, l.chr = chrEX)

getToken(l) == substring(input, l.p, l.pos)
getTag(l) == [l EXCEPT !.currTag = getToken(l), !.posNs = 0]
getAttr(l) == [l EXCEPT !.currAttr = getToken(l), !.posNs = 0]

\* The first position from wp on whose character is above 32, and the last
\* position down from wpos whose character before it is.
RECURSIVE skipLeading(_)
skipLeading(wp) == IF LE32(charCodeAt(input, wp)) THEN skipLeading(wp + 1) ELSE wp
RECURSIVE skipTrailing(_)
skipTrailing(wpos) ==
  IF LE32(charCodeAt(input, wpos - 1)) THEN skipTrailing(wpos - 1) ELSE wpos

\* getText that adds the trailing space before a closing tag too
getText_keepTrailing(l, isFirst, ends) ==
  LET wp == skipLeading(l.p)
      wpos == skipTrailing(l.pos)
  IN IF wp = l.pos
     THEN IF ~ends /\ ~isFirst /\ ~l.wspaceTrail
          THEN [l EXCEPT !.wspaceTrail = TRUE, !.text = <<32>>]
          ELSE [l EXCEPT !.wspaceTrail = FALSE, !.text = <<>>]
     ELSE
       LET wl == IF wp # l.p /\ ~isFirst /\ ~l.wspaceTrail THEN <<32>> ELSE <<>>
           trail == wpos # l.pos
           wr == IF trail THEN <<32>> ELSE <<>>
       IN [l EXCEPT !.wspaceTrail = trail,
                    !.text = wl \o replaceWspace(substring(input, wp, wpos))
                                \o wr]

\* getText (first, ends): l with `text` the value returned.
getText(l, isFirst, ends) ==
  LET wp == skipLeading(l.p)
      wpos == skipTrailing(l.pos)
  IN IF wp = l.pos
     THEN IF ~ends /\ ~isFirst /\ ~l.wspaceTrail
          THEN [l EXCEPT !.wspaceTrail = TRUE, !.text = <<32>>]
          ELSE [l EXCEPT !.wspaceTrail = FALSE, !.text = <<>>]
     ELSE
       LET wl == IF wp # l.p /\ ~isFirst /\ ~l.wspaceTrail THEN <<32>> ELSE <<>>
           trail == wpos # l.pos /\ ~ends
           wr == IF trail THEN <<32>> ELSE <<>>
       IN [l EXCEPT !.wspaceTrail = trail,
                    !.text = wl \o replaceWspace(substring(input, wp, wpos))
                                \o wr]

IsCdataStart(pos) ==
  /\ charCodeAt(input, pos + 1) = chrLB
  /\ charCodeAt(input, pos + 7) = chrLB
  /\ charCodeAt(input, pos + 2) = 67
  /\ charCodeAt(input, pos + 3) = 68
  /\ charCodeAt(input, pos + 4) = 65
  /\ charCodeAt(input, pos + 5) = 84
  /\ charCodeAt(input, pos + 6) = 65

Token(l, kind) == [l EXCEPT !.token = kind]

tokenKind(l) ==
  IF l.scope = scopeDoc
  THEN IF l.chr = chrLT
       THEN LET l1 == skipChar(l, 1)
            IN IF l1.chr = chrEX
               THEN IF charCodeAt(input, l1.pos + 1) = chrMI
                         /\ charCodeAt(input, l1.pos + 2) = chrMI
                    THEN Token([l1 EXCEPT !.pos = @ + 3], tknComment)
                    ELSE IF IsCdataStart(l1.pos)
                      THEN Token([l1 EXCEPT !.pos = @ + 8], tknCdata)
                    ELSE Token(l1, tknPi)
               ELSE IF l1.chr = chrAK THEN Token(l1, tknPi)
               ELSE IF LE32(l1.chr)
                 THEN Token([l1 EXCEPT !.pos = @ - 1], tknText)
               ELSE Token(l1, tknTagStart)
       ELSE IF l.root # null THEN Token(l, tknText)
       ELSE IF LE32(l.chr) THEN Token(l, tknNone)
       ELSE Token(l, tknText)
  ELSE IF l.chr = chrEQ THEN Token(l, tknAttrEq)
  ELSE IF l.chr = chrDQ THEN Token(l, tknAttrVal)
  ELSE IF l.chr = chrSQ THEN Token(l, tknAttrVal)
  ELSE IF l.chr = chrSL THEN Token(l, tknTagClose)
  ELSE IF l.chr = chrGT THEN Token(l, tknTagEnd)
  ELSE IF GT32(l.chr) THEN Token(l, tknAttr)
  ELSE Token(l, tknNone)

\* A token step ends with the locals l and the store h.
Step(l, h) == [l |-> l, h |-> h]
Fails(l, h) == Step(Returns(l, FALSE), h)
Succeeds(l, h) == Step(Returns(l, TRUE), h)
Throws(l, h, e) == Step(l, Throw(h, e))

\* The end of the root node that does not stop the main loop: `pos = len`
\* left out.
EndOfRoot_noStop(l, h) == Succeeds([l EXCEPT !.thisPos = l.pos + 1], h)

\* The end of the root node: this.pos = pos + 1; pos = len; return true.
EndOfRoot(l, h) ==
  Succeeds([l EXCEPT !.thisPos = l.pos + 1, !.pos = Len(input)], h)

\* currNode.append (new UXMLNode(ty, data)) of the cases tknCdata, tknComment
\* and tknText.
appendNew(l, h, ty, data) ==
  IF l.currNode = null THEN Throw(h, "TypeError")
  ELSE LET h1 == New(h, ty, data)
       IN append(h1, l.currNode, NewId(h))

\* caseTagStart with a closing tag that closes the innermost open Tag
\* whatever name it carries.
caseTagStart_anyName(l0, h) ==
  IF l0.chr = chrSL
  THEN
    LET l1 == skipTag([l0 EXCEPT !.pos = @ + 1, !.p = l0.pos + 1], TRUE)
        l2 == getTag(l1)
    IN IF ~l1.ret THEN Fails(l1, h)
       ELSE IF l2.currNode = null THEN Throws(l2, h, "TypeError")
       ELSE LET l3 == [l2 EXCEPT !.superNode = h.superNode[l2.currNode]]
            IN IF l3.superNode = null THEN EndOfRoot(l3, h)
               ELSE Succeeds(skipChar([l3 EXCEPT !.currNode = l3.superNode],
                                      1), h)
  ELSE
    LET l1 == skipTag([l0 EXCEPT !.p = l0.pos], FALSE)
        l2 == getTag(l1)
        n == NewId(h)
        h1 == New(h, tag, l2.currTag)
    IN IF ~l1.ret THEN Fails(l1, h)
       ELSE IF l2.root = null
         THEN IF ~l2.decl
              THEN Succeeds([l2 EXCEPT !.currNode = n, !.root = n,
                                       !.scope = scopeTag], h1)
              ELSE Succeeds([l2 EXCEPT !.doc = Document(n, l2.pi),
                                       !.currNode = n, !.root = n,
                                       !.scope = scopeTag], h1)
       ELSE Succeeds([l2 EXCEPT !.currNode = n, !.scope = scopeTag],
                     append(h1, l2.currNode, n))

caseTagStart(l0, h) ==
  IF l0.chr = chrSL
  THEN \* the tag is closing
    LET l1 == skipTag([l0 EXCEPT !.pos = @ + 1, !.p = l0.pos + 1], TRUE)
        l2 == getTag(l1)
    IN IF ~l1.ret THEN Fails(l1, h)
       ELSE IF l2.currNode = null THEN Throws(l2, h, "TypeError")
       ELSE IF l2.currTag = h.name[l2.currNode]
         THEN LET l3 == [l2 EXCEPT !.superNode = h.superNode[l2.currNode]]
              IN IF l3.superNode = null THEN EndOfRoot(l3, h)
                 ELSE Succeeds(skipChar([l3 EXCEPT !.currNode = l3.superNode],
                                        1), h)
       ELSE Fails(l2, h)
  ELSE \* the tag is opening
    LET l1 == skipTag([l0 EXCEPT !.p = l0.pos], FALSE)
        l2 == getTag(l1)
        n == NewId(h)
        h1 == New(h, tag, l2.currTag)
    IN IF ~l1.ret THEN Fails(l1, h)
       ELSE IF l2.root = null
         THEN IF ~l2.decl
              THEN Succeeds([l2 EXCEPT !.currNode = n, !.root = n,
                                       !.scope = scopeTag], h1)
              ELSE Succeeds([l2 EXCEPT !.doc = Document(n, l2.pi),
                                       !.currNode = n, !.root = n,
                                       !.scope = scopeTag], h1)
       ELSE Succeeds([l2 EXCEPT !.currNode = n, !.scope = scopeTag],
                     append(h1, l2.currNode, n))

caseAttr(l0, h) ==
  LET l1 == skipAttr([l0 EXCEPT !.p = l0.pos])
  IN IF ~l1.ret THEN Fails(l1, h) ELSE Succeeds(getAttr(l1), h)

caseAttrEq(l0, h) ==
  LET l1 == skipToValue([l0 EXCEPT !.pos = @ + 1])
      l2 == skipValue([l1 EXCEPT !.pos = @ + 1, !.p = l1.pos + 1])
      l3 == [l2 EXCEPT !.text = replaceWspace(getToken(l2))]
  IN IF ~l1.ret THEN Fails(l1, h)
     ELSE IF ~l2.ret THEN Fails(l2, h)
     ELSE Succeeds(skipChar(l3, 1),
                   [h EXCEPT !.attributes[l3.currNode] =
                               setAttribute(@, l3.currAttr, l3.text)])

caseTagClose(l0, h) ==
  LET l1 == skipChar(l0, 1)
      l2 == [l1 EXCEPT !.superNode = h.superNode[l1.currNode]]
  IN IF l1.chr = chrGT
     THEN IF l2.superNode = null THEN EndOfRoot(l2, h)
          ELSE Succeeds([l2 EXCEPT !.currNode = l2.superNode], h)
     ELSE Fails(l1, h)

caseTagEnd(l0, h) == Succeeds([skipChar(l0, 1) EXCEPT !.scope = scopeDoc], h)

caseCdata(l0, h) ==
  LET l1 == skipCDATA([l0 EXCEPT !.p = l0.pos])
      h1 == appendNew(l1, h, cdata, getToken(l1))
  IN IF ~l1.ret THEN Fails(l1, h)
     ELSE IF h1.thrown # "none" THEN Step(l1, h1)
     ELSE Succeeds(skipChar(l1, 3), h1)

caseComment(l0, h) ==
  LET l1 == skipComment([l0 EXCEPT !.p = l0.pos])
      h1 == appendNew(l1, h, comment, getToken(l1))
  IN IF ~l1.ret THEN Fails(l1, h)
     ELSE IF h1.thrown # "none" THEN Step(l1, h1)
     ELSE Succeeds(skipChar(l1, 3), h1)

\* `embedded` is pos !== 0 on entry, and UXML.parse enters with pos 0.
casePi(l0, h) ==
  LET l1 == skipPi(l0)
  IN IF ~l1.ret THEN Fails(l1, h) ELSE Succeeds(skipChar(l1, 1), h)

caseText(l0, h) ==
  LET l1 == skipText([l0 EXCEPT !.p = l0.pos])
  IN IF ~l1.ret THEN Fails(l1, h)
     \* currNode.length of a null currNode
     ELSE IF l1.currNode = null THEN Throws(l1, h, "TypeError")
     \* input [pos + 1].charCodeAt (0) past the end of the input
     ELSE IF l1.pos + 1 >= Len(input) THEN Throws(l1, h, "TypeError")
     ELSE
       LET l2 == getText(l1, h.size[l1.currNode] = 0,
                         charCodeAt(input, l1.pos + 1) = chrSL)
           t == unescape(l2.text)
           l3 == [l2 EXCEPT !.text = t]
       IN IF Len(l2.text) = 0 THEN Succeeds(l2, h)
          ELSE IF t = rangeErrorStr THEN Throws(l2, h, "RangeError")
          ELSE IF t = nullStr THEN Fails(l3, h)
          ELSE Succeeds(l3, appendNew(l3, h, text, t))

caseNone(l0, h) == Succeeds(skipSpace(l0), h)

processToken(l, h) ==
  LET l0 == tokenKind(l)
  IN CASE l0.token = tknTagStart -> caseTagStart(l0, h)
       [] l0.token = tknAttr -> caseAttr(l0, h)
       [] l0.token = tknAttrEq -> caseAttrEq(l0, h)
       [] l0.token = tknTagClose -> caseTagClose(l0, h)
       [] l0.token = tknTagEnd -> caseTagEnd(l0, h)
       [] l0.token = tknCdata -> caseCdata(l0, h)
       [] l0.token = tknComment -> caseComment(l0, h)
       [] l0.token = tknPi -> casePi(l0, h)
       [] l0.token = tknText -> caseText(l0, h)
       [] l0.token = tknNone -> caseNone(l0, h)
       \* tknAttrVal has no case: the switch does nothing
       [] OTHER -> Succeeds(l0, h)

(* ---- UXML.parse, one iteration of the main loop per step -------------- *)
RECURSIVE Concat(_)
Concat(strs) == IF strs = <<>> THEN <<>> ELSE Head(strs) \o Concat(Tail(strs))

\* The strings made of up to n pieces of the set.
Joined(pieces, n) ==
  {Concat(t) : t \in UNION {[1 .. k -> pieces] : k \in 0 .. n}}

\* Markup: tags r and R opening, closing and self-closed, an instruction, a
\* comment, a CDATA section, text, white space, a lone '<' and a lone '"'.
MarkupPieces ==
  {S(<<"<", "r", ">">>), S(<<"<", "/", "r", ">">>), S(<<"<", "r", "/", ">">>),
   S(<<"<", "R", ">">>), S(<<"<", "/", "R", ">">>),
   S(<<"<", "?", "x", "?", ">">>),
   S(<<"<", "!", "-", "-", "c", "-", "-", ">">>),
   S(<<"<", "!", "[", "C", "D", "A", "T", "A", "[", "d", "]", "]", ">">>),
   S(<<"t">>), S(<<" ">>), S(<<"<">>)}

\* Text runs inside <r>...</r>: entities known, unknown, numeric, broken.
TextPieces ==
  {S(<<"&", "f", ";">>), S(<<"&", "a", "m", "p", ";">>),
   S(<<"&", "l", "t", ";">>), S(<<"&", "#", "z", ";">>),
   S(<<"&", "#", "6", "5", ";">>), S(<<"&", "#", "x", "6", "1", ";">>),
   S(<<"&", "#", "-", "1", ";">>), S(<<"&">>), S(<<";">>), S(<<"t">>),
   S(<<" ">>)}

\* Attribute values inside <r x="..."/>.
ValuePieces ==
  {S(<<"a">>), S(<<"&", "a", "m", "p", ";">>), S(<<"b">>), S(<<" ">>),
   S(<<"'">>)}

InText(run) == S(<<"<", "r", ">">>) \o run \o S(<<"<", "/", "r", ">">>)
InValue(val) ==
  S(<<"<", "r", " ", "x", "=", "\"">>) \o val \o S(<<"\"", "/", ">">>)

\* Names of up to MaxName characters: r, 1, '-', '.', ':', '_' and e acute,
\* as the name of an element inside <r>...</r> and of an attribute of <r/>.
NameCodes == {114, 49, 45, 46, chrCL, 95, 233}
NameStrings == UNION {[1 .. k -> NameCodes] : k \in 0 .. MaxName}
InTag(nm) ==
  S(<<"<", "r", ">", "<">>) \o nm \o S(<<">", "<", "/">>) \o nm
    \o S(<<">", "<", "/", "r", ">">>)
InAttr(nm) ==
  S(<<"<", "r", " ">>) \o nm \o S(<<"=", "\"", "a", "\"", "/", ">">>)

\* Runs of up to MaxGap pieces of text, white space (a space, a tab), an
\* element and a comment inside <r>...</r>.
GapPieces ==
  {S(<<"t">>), S(<<" ">>), <<9>>, S(<<"<", "R", "/", ">">>),
   S(<<"<", "!", "-", "-", "c", "-", "-", ">">>)}

\* Instructions <?...?> and <!...> and the root element.
DocPieces ==
  {S(<<"<", "?", "x", "?", ">">>), S(<<"<", "?", "x", " ", "?", ">">>),
   S(<<"<", "!", "D", ">">>), S(<<"<", "r", "/", ">">>)}

Inputs ==
  Joined(MarkupPieces, MaxPieces)
    \cup Joined(DocPieces, MaxRun)
    \cup {InText(run) : run \in Joined(GapPieces, MaxGap)}
    \cup {InText(run) : run \in Joined(TextPieces, MaxRun)}
    \cup {InValue(val) : val \in Joined(ValuePieces, MaxRun)}
    \cup {S(<<"<", "r", " ", "\"">>)}
    \cup {InTag(nm) : nm \in NameStrings}
    \cup {InAttr(nm) : nm \in NameStrings}

InitParse ==
  /\ InitNoTree
  /\ input = <<>>
  /\ parser = NoParser
  /\ call = NoCall

\* What UXML.parse returned: a node, a document, undefined; Nothing when it
\* threw.
Node(n) == [is |-> "UXMLNode", root |-> n, pi |-> <<>>]
Nothing == [is |-> "nothing", root |-> null, pi |-> <<>>]

\* UXML.parse (str): new UXMLParser().parse (str, 0, str.length) up to its
\* main loop.
ParseEnter(str) ==
  /\ input' = str
  /\ parser' = Returns(skipSpace(Locals), TRUE)'
  /\ UNCHANGED <<type, name, links, call, thrown, result, calls, old, value,
                 attributes>>

\* The nodes and the pending exception become those of the store h.
StoreBecomes(h) ==
  /\ type' = h.type
  /\ name' = h.name
  /\ value' = h.value
  /\ attributes' = h.attributes
  /\ superNode' = h.superNode
  /\ previousNode' = h.previousNode
  /\ nextNode' = h.nextNode
  /\ firstNode' = h.firstNode
  /\ lastNode' = h.lastNode
  /\ size' = h.size
  /\ thrown' = h.thrown

\* One iteration of the main loop: `while (pos !== len)` and processToken().
TokenStep ==
  /\ parser.running /\ parser.ret /\ thrown = "none"
  /\ parser.pos # Len(input)
  /\ \E t \in {processToken(parser, Store)} :
       parser' = t.l /\ StoreBecomes(t.h)
  /\ UNCHANGED <<call, result, calls, old, input>>

\* A parse that ends makes at most one node for each character of its
\* input; one that has made more is followed no further.
ParseToken ==
  /\ Cardinality(DOMAIN type) <= Len(input) + 1
  /\ TokenStep

\* The end of the main loop and of UXML.parse: `return null` after a token
\* step that failed, else `return decl ? doc : currNode`, and SyntaxError
\* thrown by UXML.parse for null.
ParseReturn ==
  /\ parser.running
  /\ ~parser.ret \/ thrown # "none" \/ parser.pos = Len(input)
  /\ parser' = [parser EXCEPT !.running = FALSE]
  /\ call' = TextCall("parse")
  /\ IF thrown # "none" THEN result' = Nothing /\ thrown' = thrown
     ELSE IF ~parser.ret THEN result' = Nothing /\ thrown' = "SyntaxError"
     ELSE IF parser.decl THEN result' = parser.doc /\ thrown' = thrown
     ELSE IF parser.currNode = null
       THEN result' = Nothing /\ thrown' = "SyntaxError"
     ELSE result' = Node(parser.currNode) /\ thrown' = thrown
  /\ UNCHANGED <<type, name, links, calls, old, value, attributes, input>>

\* A parser parses once.
NextParse ==
  \/ /\ call = NoCall /\ ~parser.running
     /\ \E str \in Inputs : ParseEnter(str)
  \/ ParseToken
  \/ ParseReturn

SpecParse == InitParse /\ [][NextParse]_vars

(* ---- UXMLFormatter.format ---------------------------------------------- *)
\* ofSpace (str) of canIndent
ofSpace(str) == \A i \in DOMAIN str : str[i] <= 32

\* The first loop of canIndent: no Text child with a character above 32 and
\* no Cdata child from sub on.
RECURSIVE canIndentScan(_, _)
canIndentScan(h, sub) ==
  IF sub = null THEN TRUE
  ELSE IF h.type[sub] = text /\ ~ofSpace(h.value[sub]) THEN FALSE
  ELSE IF h.type[sub] = cdata THEN FALSE
  ELSE canIndentScan(h, h.nextNode[sub])

\* canIndentStrip that stops after the first Text child it detaches
RECURSIVE canIndentStrip_first(_, _)
canIndentStrip_first(h, next) ==
  IF next = null THEN h
  ELSE IF h.type[next] = text THEN detach(h, next)
  ELSE canIndentStrip_first(h, h.nextNode[next])

\* The second loop of canIndent: every Text child from next on is detached.
RECURSIVE canIndentStrip(_, _)
canIndentStrip(h, next) ==
  IF next = null THEN h
  ELSE canIndentStrip(IF h.type[next] = text THEN detach(h, next) ELSE h,
                      h.nextNode[next])

\* canIndent that skips the first loop and strips whatever Text there is
canIndent_noScan(h, node, indent) ==
  IF indent = 0 THEN [h |-> h, ret |-> FALSE]
  ELSE [h |-> canIndentStrip(h, h.firstNode[node]), ret |-> TRUE]

\* canIndent (node): the store after it and the value returned.
canIndent(h, node, indent) ==
  IF indent = 0 THEN [h |-> h, ret |-> FALSE]
  ELSE IF ~canIndentScan(h, h.firstNode[node]) THEN [h |-> h, ret |-> FALSE]
  ELSE [h |-> canIndentStrip(h, h.firstNode[node]), ret |-> TRUE]

\* ' '.repeat (num)
RECURSIVE repeatSpace(_)
repeatSpace(num) == IF num <= 0 THEN <<>> ELSE <<32>> \o repeatSpace(num - 1)

\* indentStr (indent) at the depth currDepth
indentStr(currDepth, indent) == repeatSpace(currDepth * indent)

\* const eol = indent ? '\n' : ''
eol(indent) == IF indent # 0 THEN <<10>> ELSE <<>>

\* The loop over outNode.attributes: ' ' + attr + '="' + escape (value) + '"'
RECURSIVE outputAttributes(_)
outputAttributes(attrs) ==
  IF attrs = <<>> THEN <<>>
  ELSE <<32>> \o Head(attrs)[1] \o <<chrEQ, chrDQ>>
         \o escape(Head(attrs)[2], pattern_escape) \o <<chrDQ>>
         \o outputAttributes(Tail(attrs))

\* The formatter between two statements: the store, the array buf of the
\* strings pushed, and currDepth.
Formatter(h, buf, currDepth) == [h |-> h, buf |-> buf, currDepth |-> currDepth]
Push(f, str) == [f EXCEPT !.buf = Append(@, str)]

\* outputNode (outNode, omitSelf, pindented) and its loop over the sub
\* nodes from firstSub on.
RECURSIVE outputNode(_, _, _, _, _)
RECURSIVE outputNodes(_, _, _, _)
outputNode(f0, outNode, omitSelf, pindented, indent) ==
  LET ci == IF pindented THEN canIndent(f0.h, outNode, indent)
            ELSE [h |-> f0.h, ret |-> FALSE]
      indented == IF ci.ret THEN indent ELSE 0
      pind == IF pindented THEN indent ELSE 0
      f == [f0 EXCEPT !.h = ci.h]
      h == ci.h
      str == indentStr(f.currDepth, pind) \o <<chrLT>> \o h.name[outNode]
               \o outputAttributes(h.attributes[outNode])
      firstSub == h.firstNode[outNode]
      opened == [Push(f, str \o <<chrGT>>
                           \o (IF indented # 0 THEN eol(indent) ELSE <<>>))
                   EXCEPT !.currDepth = @ + 1]
      inner == outputNodes(IF omitSelf THEN f ELSE opened, firstSub, indented,
                           indent)
      closed == [inner EXCEPT !.currDepth = @ - 1]
  IN IF h.type[outNode] = text
       THEN Push(f, escape(h.value[outNode], pattern_escape))
     ELSE IF h.type[outNode] = cdata
       THEN Push(f, S(<<"<", "!", "[", "C", "D", "A", "T", "A", "[">>)
                      \o h.value[outNode] \o S(<<"]", "]", ">">>))
     ELSE IF h.type[outNode] = comment
       THEN Push(f, indentStr(f.currDepth, pind) \o S(<<"<", "!", "-", "-">>)
                      \o h.value[outNode] \o S(<<"-", "-", ">">>))
     ELSE IF omitSelf THEN inner
     ELSE IF firstSub = null THEN Push(f, str \o <<chrSL, chrGT>>)
     ELSE Push(closed, (IF indented # 0 THEN eol(indent) ELSE <<>>)
                         \o indentStr(closed.currDepth, indented)
                         \o <<chrLT, chrSL>> \o h.name[outNode] \o <<chrGT>>)

outputNodes(f, firstSub, indented, indent) ==
  IF firstSub = null THEN f
  ELSE LET f1 == outputNode(f, firstSub, FALSE, indented # 0, indent)
           next == f1.h.nextNode[firstSub]
       IN outputNodes(IF indented # 0 /\ next # null
                      THEN Push(f1, eol(indent)) ELSE f1,
                      next, indented, indent)

\* The header of a document: every instruction followed by eol, pushed.
RECURSIVE outputPi(_, _)
outputPi(pi, indent) ==
  IF pi = <<>> THEN <<>>
  ELSE <<Head(pi) \o eol(indent)>> \o outputPi(Tail(pi), indent)

\* UXML.defFmtOpts
defFmtOpts ==
  [codepts |-> <<>>, omitSelf |-> FALSE, depth |-> 0, noIndentFirst |-> FALSE]

\* str.trimLeft ()
RECURSIVE trimLeft(_)
trimLeft(str) ==
  IF str # <<>> /\ Head(str) \in {9, 10, 11, 12, 13, 32}
  THEN trimLeft(Tail(str)) ELSE str

\* The end of format: `if (opts.noIndentFirst) buf[0] = buf[0].trimLeft ()`,
\* a TypeError when nothing was pushed, and `return buf.join ('')`.
formatReturn(f, noIndentFirst) ==
  IF ~noIndentFirst THEN [f EXCEPT !.buf = Concat(@)]
  ELSE [f EXCEPT !.h = IF f.buf = <<>> THEN Throw(@, "TypeError") ELSE @,
                 !.buf = IF @ = <<>> THEN <<>>
                         ELSE trimLeft(Head(@)) \o Concat(Tail(@))]

\* format that does not look at the options of a document
formatOpts_noCheck(h, node, indent, opts) ==
  formatReturn(
    outputNode(Formatter(h, IF node.is = "UXMLDocument"
                            THEN outputPi(node.pi, indent) ELSE <<>>,
                         opts.depth),
               node.root, opts.omitSelf, TRUE, indent),
    opts.noIndentFirst)

\* format (node, indent, opts) with opts.codepts empty, node a UXMLNode or a
\* UXMLDocument: the store after it and, in buf, the string returned.
formatOpts(h, node, indent, opts) ==
  IF node.is = "UXMLDocument" /\ (opts.omitSelf \/ opts.noIndentFirst)
  THEN [h |-> Throw(h, "RangeError"), buf |-> <<>>]
  ELSE formatReturn(
         outputNode(Formatter(h, IF node.is = "UXMLDocument"
                                 THEN outputPi(node.pi, indent) ELSE <<>>,
                              opts.depth),
                    node.root, opts.omitSelf, TRUE, indent),
         opts.noIndentFirst)

\* format (node, indent) with the default options
format(h, node, indent) == formatOpts(h, node, indent, defFmtOpts)

\* UXML.stringify (node, indent, opts)
stringify(h, node, indent, opts) == formatOpts(h, node, indent, opts)

(* ---- trees built with the factories, formatted and parsed again -------- *)
\* The names, attribute values and node values the trees are built of.
TagNames == {S(<<"r">>)}
AttrValues == {S(<<"a">>), S(<<"a", "&", "b">>)}
TextValues == {S(<<"t">>), S(<<"a", "&", "b">>), S(<<" ">>)}
Factories ==
  {<<tag, nm>> : nm \in TagNames} \cup {<<text, v>> : v \in TextValues}
    \cup {<<cdata, S(<<"d">>)>>, <<comment, S(<<"c">>)>>}
Indents == {0, 2}

\* The root of the tree that is built: the firstSub node made.
builtRoot == 1

InitFormat ==
  /\ InitNoTree
  /\ input = <<>>
  /\ parser = NoParser
  /\ call = NoCall

\* root = UXMLDocument.newTagNode (nm)
BuildRoot(nm) ==
  /\ call = NoCall
  /\ DOMAIN type = {nullNode}
  /\ StoreBecomes(New(Store, tag, nm))
  /\ UNCHANGED <<call, result, calls, old, input, parser>>

\* parent.append (UXMLDocument.new...Node (data)), the node made by the
\* factory of the type ty.
BuildChild(parent, ty, data) ==
  /\ call = NoCall
  /\ type[parent] = tag
  /\ Cardinality(DOMAIN type) <= MaxNodes
  /\ StoreBecomes(append(New(Store, ty, data), parent, NewId(Store)))
  /\ UNCHANGED <<call, result, calls, old, input, parser>>

\* node.attributes.set ("x", val)
BuildAttr(node, val) ==
  /\ call = NoCall
  /\ type[node] = tag
  /\ attributes[node] = <<>>
  /\ attributes' = [attributes EXCEPT
                      ![node] = setAttribute(@, S(<<"x">>), val)]
  /\ UNCHANGED <<type, name, value, links, thrown, call, result, calls, old,
                 input, parser>>

\* The options stringify is called with, and the instructions pushed to the
\* pi of the document `new UXMLDocument (nm)` whose root the tree built is.
FmtOpts ==
  {defFmtOpts, [defFmtOpts EXCEPT !.omitSelf = TRUE],
   [defFmtOpts EXCEPT !.noIndentFirst = TRUE]}
Instructions == {<<>>, <<S(<<"<", "?", "x", "?", ">">>)>>}

\* A call of stringify: its argument, a UXMLNode or a UXMLDocument, with its
\* root in `node`, the indent in `num` and the options.
FormatCall(arg, indent, opts) ==
  [op |-> "stringify", self |-> null, node |-> arg.root, ref |-> null,
   num |-> indent, str |-> "", is |-> arg.is, pi |-> arg.pi, opts |-> opts]

\* UXML.stringify (arg, indent, opts): of the tree built or of its document,
\* once more of the tree built with the same indent, and with indent 0 of the
\* node parse returned; `calls` counts the calls of stringify.
CallStringify(arg, indent, opts) ==
  /\ arg.root \in DOMAIN type
  /\ \/ call = NoCall /\ arg.root = builtRoot
     \/ /\ call.op = "stringify" /\ calls = 1 /\ input = <<>>
        /\ call.is = "UXMLNode" /\ call.opts = defFmtOpts
        /\ arg = Node(call.node) /\ indent = call.num /\ opts = defFmtOpts
     \/ /\ call.op = "parse" /\ thrown = "none" /\ result.is = "UXMLNode"
        /\ arg = result /\ indent = 0 /\ opts = defFmtOpts
  /\ \E f \in {stringify(Store, arg, indent, opts)} :
       /\ StoreBecomes(f.h)
       /\ result' = IF f.h.thrown # "none" THEN Nothing ELSE f.buf
  /\ call' = FormatCall(arg, indent, opts)
  /\ calls' = calls + 1
  /\ UNCHANGED <<old, input, parser>>

\* UXML.parse (str) of the string stringify returned for indent 0, up to
\* the main loop
Reparse ==
  /\ call.op = "stringify" /\ call.node = builtRoot /\ call.num = 0
  /\ call.is = "UXMLNode" /\ call.opts = defFmtOpts
  /\ calls = 1
  /\ ~parser.running /\ input = <<>>
  /\ ParseEnter(result)

NextFormat ==
  \/ \E nm \in TagNames : BuildRoot(nm)
  \/ \E parent \in DOMAIN type \ {nullNode}, f \in Factories :
       BuildChild(parent, f[1], f[2])
  \/ \E node \in DOMAIN type \ {nullNode}, val \in AttrValues :
       BuildAttr(node, val)
  \/ \E arg \in {Node(n) : n \in DOMAIN type \ {nullNode}}
                  \cup {Document(builtRoot, pi) : pi \in Instructions},
        indent \in Indents, opts \in FmtOpts :
       CallStringify(arg, indent, opts)
  \/ Reparse
  \/ TokenStep
  \/ ParseReturn

SpecFormat == InitFormat /\ [][NextFormat]_vars

(* ---- the child lists, as the claims read them ------------------------ *)
\* The nodes met from n on by following the link f until null, or
\* <<null>> when the walk never ends.
RECURSIVE Walk(_, _, _)
Walk(f, n, fuel) ==
  IF n = null THEN <<>>
  ELSE IF fuel = 0 THEN <<null>>
  ELSE LET rest == Walk(f, f[n], fuel - 1)
       IN IF rest = <<null>> THEN rest ELSE <<n>> \o rest

Endless == <<null>>
Forward(h, p) == Walk(h.nextNode, h.firstNode[p], Cardinality(Nodes))
Backward(h, p) == Walk(h.previousNode, h.lastNode[p], Cardinality(Nodes))

RECURSIVE Reverse(_)
Reverse(s) == IF s = <<>> THEN <<>> ELSE Reverse(Tail(s)) \o <<Head(s)>>

Now == [Heap EXCEPT !.thrown = thrown]

\* The link fields and sizes of all nodes.
Fields(h) ==
  <<h.superNode, h.previousNode, h.nextNode, h.firstNode, h.lastNode, h.size>>

\* How often node n occurs in sequence s.
Occurrences(s, n) == Cardinality({i \in DOMAIN s : s[i] = n})

\* s without its occurrences of n.
RECURSIVE Without(_, _)
Without(s, n) ==
  IF s = <<>> THEN <<>>
  ELSE IF Head(s) = n THEN Without(Tail(s), n)
  ELSE <<Head(s)>> \o Without(Tail(s), n)

Called(op) == call.op = op

\* The nodes above n, following superNode up to limit steps.
RECURSIVE Ancestors(_, _, _)
Ancestors(h, n, limit) ==
  IF h.superNode[n] = null \/ limit = 0 THEN {}
  ELSE {h.superNode[n]} \cup Ancestors(h, h.superNode[n], limit - 1)

\* The links of h form a forest: child lists are finite, read the same in
\* both directions, hold exactly the nodes whose superNode is the Tag, each
\* once, sizes count them, and no node is above itself.
WellFormed(h) ==
  /\ \A n \in Nodes :
       /\ h.superNode[n] \in Tags \cup {null}
       /\ n \notin Ancestors(h, n, Cardinality(Nodes))
       /\ h.superNode[n] = null => h.previousNode[n] = null /\ h.nextNode[n] = null
       /\ n \notin Tags => h.firstNode[n] = null /\ h.lastNode[n] = null /\ h.size[n] = 0
  /\ \A p \in Tags :
       LET f == Forward(h, p)
       IN /\ f # Endless
          /\ Backward(h, p) = Reverse(f)
          /\ h.size[p] = Len(f)
          /\ \A i \in DOMAIN f : h.superNode[f[i]] = p /\ Occurrences(f, f[i]) = 1
          /\ \A n \in Nodes : h.superNode[n] = p => Occurrences(f, n) = 1

\* The call was made on a forest and attaches no node to itself, to a node
\* below it, or before itself.
PlainCall ==
  /\ call.op \in {"append", "insert", "detach", "remove"}
  /\ WellFormed(old)
  /\ call.node # null =>
       /\ call.node # call.self
       /\ call.node \notin Ancestors(old, call.self, Cardinality(Nodes))
       /\ call.node # call.ref
       /\ (call.op = "insert" /\ call.ref = null) =>
            call.node # old.firstNode[call.self]

\* C1: in every state reached by append, insert, detach and remove calls,
\* throwing ones included, every Tag's size is the number of nodes on the
\* walk from firstNode along nextNode, which is the number on the walk from
\* lastNode along previousNode.
C1_SizeMatchesWalks ==
  \A p \in Tags :
    /\ Forward(Now, p) # Endless
    /\ Backward(Now, p) # Endless
    /\ size[p] = Len(Forward(Now, p))
    /\ Len(Forward(Now, p)) = Len(Backward(Now, p))


\* C2 as stated: a successful insert(child) with the reference omitted
\* leaves every link and size as append(child) would have.
C2_InsertWithoutRefIsAppend ==
  (Called("insert") /\ call.ref = null /\ type[call.self] = tag)
    => /\ Fields(Now) = Fields(append(old, call.self, call.node))
       /\ thrown = append(old, call.self, call.node).thrown

\* C2 amended: insert(child) with the reference omitted does what
\* append(child) does only on a Tag whose firstNode is null; otherwise it
\* links child immediately before the Tag's first child instead.
C2_InsertWithoutRefGoesFirst ==
  (Called("insert") /\ call.ref = null /\ type[call.self] = tag)
    => IF old.firstNode[call.self] = null
       THEN /\ Fields(Now) = Fields(append(old, call.self, call.node))
            /\ thrown = append(old, call.self, call.node).thrown
       ELSE thrown = "none" =>
              /\ superNode[call.node] = call.self
              /\ nextNode[call.node] = old.firstNode[call.self]
              /\ previousNode[old.firstNode[call.self]] = call.node

C2_Witness ==
  /\ Called("insert") /\ call.ref = null /\ thrown = "none"
  /\ old.size[call.self] = 2
  /\ Forward(old, call.self) # Endless
  /\ old.superNode[call.node] = null
  /\ Forward(Now, call.self) = <<call.node>> \o Forward(old, call.self)

NavOps ==
  {"super", "previous", "next", "superTag", "previousTag", "nextTag", "first",
   "last", "firstTag", "lastTag", "nth", "nthTag"}

\* The link a one-step query follows from n.
StepLink(q, n) ==
  CASE q.op \in {"super", "superTag"} -> superNode[n]
    [] q.op \in {"previous"} -> previousNode[n]
    [] q.op \in {"next"} -> nextNode[n]
    [] q.op = "first" -> firstNode[n]
    [] q.op = "last" -> lastNode[n]

OneStep(q) ==
  \/ q.op \in {"first", "last"}
  \/ q.op \in {"super", "previous", "next", "superTag"} /\ q.num = 1 /\ q.str = ""

\* C3: a navigation call with a non-negative count or a name, made on any
\* node, the Null node included, never throws and never returns null; a
\* step past a boundary returns nullNode, every navigation call on nullNode
\* returns nullNode, and isNull() holds of nullNode and of no other node.
C3_NavigationIsNullSafe ==
  /\ \A n \in Nodes : isNull(n) <=> n = nullNode
  /\ (call.op \in NavOps /\ call.num >= 0)
       => /\ thrown \in {"none", "diverges"}
          /\ thrown = "none" =>
               /\ result \in Nodes
               /\ \A q \in Queries :
                    q.num >= 0 =>
                      Navigate(Now, result, q) \in Nodes \cup {diverges}
  /\ call = NoCall =>
       \A n \in Nodes, q \in Queries :
         q.num >= 0 =>
           LET r == Navigate(Now, n, q)
           IN /\ r \in Nodes \cup {diverges}
              /\ (OneStep(q) /\ StepLink(q, n) = null) => r = nullNode
              /\ n = nullNode => r = nullNode

C3_Witness ==
  /\ Called("nextTag") /\ call.num = 2 /\ thrown = "none"
  /\ result = nullNode
  /\ \E p \in Tags : size[p] = 3 /\ WellFormed(Now)

\* C4: append, insert and remove on a receiver that is not a Tag throw
\* TypeError and leave every link and size as it was, the argument's too.
C4_NonTagReceiverThrows ==
  (call.op \in {"append", "insert", "remove"} /\ type[call.self] # tag)
    => thrown = "TypeError" /\ Fields(Now) = Fields(old)

C4_Witness ==
  /\ Called("append") /\ type[call.self] = text /\ thrown = "TypeError"
  /\ old.superNode[call.node] \in Tags
  /\ superNode[call.node] = old.superNode[call.node]

\* C5: after P.append(c) on a Tag P with c not the Null node, c is the last
\* child of P, c is gone from the child list of its previous parent, whose
\* size dropped by one, and c occurs in exactly one child list, once.
C5_AppendMakesLastChild ==
  (Called("append") /\ type[call.self] = tag /\ call.node # nullNode)
    => LET P == call.self  c == call.node  Q == old.superNode[call.node]
       IN /\ thrown = "none"
          /\ lastNode[P] = c /\ superNode[c] = P /\ nextNode[c] = null
          /\ (Q # null /\ Q # P) =>
               /\ Occurrences(Forward(Now, Q), c) = 0
               /\ size[Q] = old.size[Q] - 1
          /\ \A p \in Tags :
               Occurrences(Forward(Now, p), c) = IF p = P THEN 1 ELSE 0

C5_Witness ==
  /\ Called("append") /\ thrown = "none"
  /\ old.superNode[call.node] \in Tags \ {call.self}
  /\ old.size[call.self] >= 1
  /\ lastNode[call.self] = call.node

\* C6: P.insert(child, before) with before given and not a direct child of
\* P throws RangeError and leaves every link and size as it was.
C6_InsertBadRefThrows ==
  (Called("insert") /\ type[call.self] = tag /\ call.ref # null
     /\ old.superNode[call.ref] # call.self)
    => thrown = "RangeError" /\ Fields(Now) = Fields(old)

C6_Witness ==
  /\ Called("insert") /\ thrown = "RangeError"
  /\ old.superNode[call.ref] \in Tags
  /\ old.superNode[old.superNode[call.ref]] = call.self
  /\ old.superNode[call.node] \in Tags

\* C7: after P.insert(child, before) with before a direct child of P and
\* child not the Null node, child is a direct child of P immediately before
\* `before`, and the other children of P keep their relative order.
C7_InsertPutsChildBeforeRef ==
  (Called("insert") /\ type[call.self] = tag /\ call.ref # null
     /\ old.superNode[call.ref] = call.self /\ call.node # nullNode)
    => LET P == call.self  c == call.node  b == call.ref
       IN /\ thrown = "none"
          /\ superNode[c] = P
          /\ nextNode[c] = b /\ previousNode[b] = c
          /\ Forward(Now, P) # Endless
          /\ Occurrences(Forward(Now, P), c) = 1
          /\ Without(Forward(Now, P), c) = Without(Forward(old, P), c)

C7_Witness ==
  /\ Called("insert") /\ thrown = "none" /\ call.ref # null
  /\ call.ref # call.node
  /\ old.size[call.self] = 2
  /\ old.lastNode[call.self] = call.ref
  /\ old.superNode[call.node] \in Tags \ {call.self}
  /\ Len(Forward(Now, call.self)) = 3
  /\ Forward(Now, call.self)[2] = call.node

\* C8: P.remove(child) on a Tag P detaches child exactly when child is a
\* direct child of P; otherwise it changes no link and no size.
C8_RemoveOnlyDirectChild ==
  (Called("remove") /\ type[call.self] = tag)
    => LET P == call.self  c == call.node
       IN IF old.superNode[c] = P
          THEN /\ thrown = "none"
               /\ superNode[c] = null /\ previousNode[c] = null
               /\ nextNode[c] = null
               /\ size[P] = old.size[P] - 1
               /\ Forward(Now, P) = Without(Forward(old, P), c)
          ELSE thrown = "none" /\ Fields(Now) = Fields(old)

C8_Witness ==
  /\ Called("remove") /\ thrown = "none"
  /\ old.superNode[call.node] \in Tags
  /\ old.superNode[old.superNode[call.node]] = call.self
  /\ Fields(Now) = Fields(old)

\* C9: detach() on a node without a parent either returns or throws, and
\* either way modifies no link and no size.
C9_DetachWithoutParentIsGuarded ==
  (Called("detach") /\ old.superNode[call.self] = null)
    => Fields(Now) = Fields(old)

C9_Witness ==
  /\ Called("detach") /\ call.self \in Tags /\ calls >= 3
  /\ old.superNode[call.self] = null
  /\ thrown = "TypeError"


\* The direct children of p that are Tags named str, in list order.
IsNamed(str, n) == n \in Tags /\ name[n] = str
RECURSIVE Named(_, _)
Named(s, str) ==
  IF s = <<>> THEN <<>>
  ELSE IF s = Endless THEN Endless
  ELSE IF IsNamed(str, Head(s)) THEN <<Head(s)>> \o Named(Tail(s), str)
  ELSE Named(Tail(s), str)

\* C10: for a Tag P, a non-empty name and an index >= 0, P.nthTag(index,
\* name) is the (index+1)-th direct child of P that is a Tag of that name,
\* in list order, and nullNode when P has fewer such children.
C10_NthTagCountsNamedTags ==
  call = NoCall =>
    \A p \in Tags, str \in Names, idx \in 0 .. MaxCount :
      LET m == Named(Forward(Now, p), str)
      IN /\ m # Endless
         /\ nthTag(Now, p, idx, str) =
              IF idx + 1 <= Len(m) THEN m[idx + 1] ELSE nullNode

C10_Witness ==
  /\ Called("nthTag") /\ call.num = 1 /\ call.str = "b" /\ thrown = "none"
  /\ result \in Tags
  /\ WellFormed(Now)
  /\ LET f == Forward(Now, superNode[result])
     IN /\ Len(f) = 3
        /\ IsNamed("b", f[1]) /\ type[f[2]] = text /\ f[3] = result

\* What the same statements come to for calls made on a forest: each holds
\* there (C1 and C7 for calls that do not insert a node before itself or
\* attach a node below itself), so every violation above starts from a
\* child list that an earlier call has already broken.
OnForest_C1 == PlainCall => WellFormed(Now)
OnForest_C5 == (Called("append") /\ WellFormed(old)) => C5_AppendMakesLastChild
OnForest_C7 ==
  (Called("insert") /\ WellFormed(old) /\ call.node # call.ref)
    => C7_InsertPutsChildBeforeRef
OnForest_C8 == (Called("remove") /\ WellFormed(old)) => C8_RemoveOnlyDirectChild
OnForest_C9 ==
  (Called("detach") /\ WellFormed(old)) => C9_DetachWithoutParentIsGuarded
OnForest_C10 == (call = NoCall /\ WellFormed(Now)) => C10_NthTagCountsNamedTags

(* ---- escape and unescape, as the claims read them --------------------- *)
\* The positions of str at which an entity of the five starts.
EntityAt(str, i) ==
  \E c \in pattern_escape :
    /\ i + Len(EntityOf(c)) - 1 <= Len(str)
    /\ SubSeq(str, i, i + Len(EntityOf(c)) - 1) = EntityOf(c)

\* C18: for every string s over an alphabet with < > " ' & and other
\* characters, unescape(escape(s, pattern)) is s, and escape(s, pattern)
\* holds none of < > " ' and holds & only as the start of an entity.
C18_EscapeThenUnescapeIsIdentity ==
  /\ Called("escape") =>
       \A i \in DOMAIN result :
         /\ result[i] \notin {chrLT, chrGT, chrDQ, chrSQ}
         /\ result[i] = chrAM => EntityAt(result, i)
  /\ Called("unescape") => result = input

C18_Witness ==
  /\ Called("unescape")
  /\ input = <<chrAM, chrLT, Ascii[";"], chrAM>>
  /\ result = input

(* ---- the parser, as the claims read it --------------------------------- *)
Parsed == Called("parse")

\* C11: UXML.parse either throws SyntaxError, or returns a UXMLDocument
\* whose root is a Tag (an instruction <?...?> was seen), or returns a Tag
\* (none was seen); it returns nothing else, undefined least of all.
C11_ParseHasThreeOutcomes ==
  Parsed =>
    \/ thrown = "SyntaxError"
    \/ /\ thrown = "none" /\ parser.decl
       /\ result.is = "UXMLDocument"
       /\ result.root \in DOMAIN type /\ type[result.root] = tag
    \/ /\ thrown = "none" /\ ~parser.decl
       /\ result.is = "UXMLNode"
       /\ result.root \in DOMAIN type /\ type[result.root] = tag

\* C12: UXML.parse returns or throws SyntaxError; it throws no TypeError,
\* RangeError or other exception, whatever the input.
C12_ParseThrowsSyntaxErrorOnly ==
  Parsed => thrown \in {"none", "SyntaxError"}

\* The main loop is about to run processToken.
InMainLoop ==
  /\ parser.running /\ parser.ret /\ thrown = "none"
  /\ parser.pos # Len(input)

\* C13: parsing terminates, because from every state of the main loop the
\* token step fails or throws, or it advances the scan position or changes
\* the scope; no step leaves position and scope as they were, to be
\* repeated forever.
C13_EveryTokenStepAdvances ==
  InMainLoop =>
    LET t == processToken(parser, Store)
    IN \/ ~t.l.ret
       \/ t.h.thrown # "none"
       \/ t.l.pos > parser.pos
       \/ t.l.scope # parser.scope

\* The name of the closing tag at the scan position: the characters
\* between "</" and the next '>'.
AtClosingTag ==
  /\ parser.scope = scopeDoc
  /\ parser.chr = chrLT
  /\ charCodeAt(input, parser.pos + 1) = chrSL
ClosingName ==
  LET from == parser.pos + 2
      to == indexOf(input, chrGT, from)
  IN IF to = -1 THEN SubSeq(input, from + 1, Len(input))
     ELSE SubSeq(input, from + 1, to)

\* C14: a token step at a closing tag whose name is not, character for
\* character, the name of the innermost open Tag fails and leaves the tree
\* as it was, and after a failed token step UXML.parse throws SyntaxError
\* and returns no tree.
C14_MismatchedClosingTagFails ==
  [][((ParseToken /\ AtClosingTag /\ parser.currNode # null
          /\ ClosingName # name[parser.currNode])
        => (~parser'.ret /\ thrown' = "none" /\ Store' = Store))
     /\ ((ParseReturn /\ ~parser.ret)
          => (thrown' = "SyntaxError" /\ result' = Nothing))]_vars

C14_Witness ==
  /\ Parsed /\ thrown = "SyntaxError" /\ result = Nothing
  /\ parser.token = tknTagStart
  /\ parser.currNode # null /\ superNode[parser.currNode] # null
  /\ name[parser.currNode] = S(<<"R">>)
  /\ parser.currTag = S(<<"r">>)

\* C15: a parse that returns has consumed the end of its root element, and
\* a bare node it returns is the root: the first tag opened, without a
\* parent.
C15_UnclosedTagFails ==
  (Parsed /\ thrown = "none") =>
    /\ parser.thisPos > 0
    /\ (result.is = "UXMLNode" =>
          /\ result.root = parser.root
          /\ superNode[result.root] = null)


(* ---- entities in a text run, as the claims read them ------------------- *)
\* The input is <r>RUN</r> with a run that is one text token and is kept
\* as it is by getText: no '<' and no white space in it, and not empty.
TextRun == SubSeq(input, 4, Len(input) - 4)
IsTextRun ==
  /\ Len(input) >= 8
  /\ SubSeq(input, 1, 3) = S(<<"<", "r", ">">>)
  /\ SubSeq(input, Len(input) - 3, Len(input)) = S(<<"<", "/", "r", ">">>)
  /\ \A i \in 4 .. Len(input) - 4 : input[i] > 32 /\ input[i] # chrLT

\* The first place of chr in str from place i on, 0 for none.
RECURSIVE FirstAt(_, _, _)
FirstAt(str, chr, i) ==
  IF i > Len(str) THEN 0
  ELSE IF str[i] = chr THEN i
  ELSE FirstAt(str, chr, i + 1)

\* The run holds &name; with a name that is not one of the five.
HasUnknownEntity(run) ==
  \E i, j \in DOMAIN run :
    /\ i + 1 < j /\ run[i] = chrAM /\ run[j] = Ascii[";"]
    /\ \A k \in i + 1 .. j - 1 : run[k] \notin {chrAM, Ascii[";"]}
    /\ run[i + 1] # Ascii["#"]
    /\ Entity(SubSeq(run, i + 1, j - 1)) = NaN

\* The only child of the root the parse returned is a Text with value val.
RootHoldsText(val) ==
  /\ thrown = "none" /\ result.is = "UXMLNode"
  /\ size[result.root] = 1
  /\ type[firstNode[result.root]] = text
  /\ value[firstNode[result.root]] = val

Decodes(str) == [is |-> "text", text |-> str]
Then(str, rest) ==
  IF rest.is = "text" THEN Decodes(str \o rest.text) ELSE rest
RECURSIVE Decoded(_)
Decoded(run) ==
  LET amp == FirstAt(run, chrAM, 1)
      semi == FirstAt(run, Ascii[";"], amp + 1)
      ent == SubSeq(run, amp + 1, semi - 1)
      before == SubSeq(run, 1, amp - 1)
      rest == Decoded(SubSeq(run, semi + 1, Len(run)))
      num == IF Len(ent) > 1 /\ ent[2] = Ascii["x"]
             THEN parseInt(SubSeq(ent, 3, Len(ent)), 16)
             ELSE parseInt(Tail(ent), 10)
  IN IF amp = 0 THEN Decodes(run)
     ELSE IF semi = 0 THEN [is |-> "failed", text |-> <<>>]
     ELSE IF ent # <<>> /\ ent[1] = Ascii["#"]
       THEN IF num.isNaN THEN [is |-> "failed", text |-> <<>>]
            ELSE IF num.num \notin 0 .. 1114111
              THEN [is |-> "raised", text |-> <<>>]
            ELSE Then(before \o <<num.num>>, rest)
     ELSE IF Entity(ent) # NaN THEN Then(before \o <<Entity(ent)>>, rest)
     ELSE Then(before \o SubSeq(run, amp, semi), rest)

AttrValue == SubSeq(input, 7, Len(input) - 3)
IsAttrInput ==
  /\ Len(input) >= 9
  /\ input = InValue(AttrValue)
  /\ \A i \in 7 .. Len(input) - 3 : input[i] # chrDQ
  /\ \A i \in 7 .. Len(input) - 4 : input[i] > 32 \/ input[i + 1] > 32
IsEscapedValue(val) ==
  /\ unescape(val) \notin {nullStr, rangeErrorStr}
  /\ escape(unescape(val), pattern_escape) = val

\* C17: the value of an attribute is decoded by parse and encoded by format:
\* from x="a&amp;b" the tag holds a&b for x, and formatting the parsed tree
\* gives the input back.
C17_AttributeValueIsDecoded ==
  (Parsed /\ IsAttrInput /\ IsEscapedValue(AttrValue)) =>
    /\ thrown = "none" /\ result.is = "UXMLNode"
    /\ attributes[result.root] = <<<<S(<<"x">>), unescape(AttrValue)>>>>
    /\ format(Store, result, 0).buf = input

(* ---- format and parse again, as the claims read them ------------------- *)
\* The sub nodes of n in their order.
SubNodes(n) == Walk(nextNode, firstNode[n], Cardinality(DOMAIN type))

\* The nodes made with the factories: those made before the parser's.
BuiltNodes ==
  {n \in DOMAIN type \ {nullNode} :
     n < (IF parser.root = null THEN NewId(Store) ELSE parser.root)}

\* a and b are trees of the same tags, attribute values, node values and
\* order of sub nodes.
RECURSIVE SameTree(_, _)
SameTree(a, b) ==
  /\ type[a] = type[b]
  /\ IF type[a] = tag
     THEN /\ name[a] = name[b]
          /\ attributes[a] = attributes[b]
          /\ Len(SubNodes(a)) = Len(SubNodes(b))
          /\ \A i \in DOMAIN SubNodes(a) :
               SameTree(SubNodes(a)[i], SubNodes(b)[i])
     ELSE value[a] = value[b]

\* A Text value that is not empty and has no white space at its ends and no
\* two white space characters in a row.
IsPlainText(str) ==
  /\ str # <<>>
  /\ str[1] > 32 /\ str[Len(str)] > 32
  /\ \A i \in 1 .. Len(str) - 1 : str[i] > 32 \/ str[i + 1] > 32

\* The tree built is one the round trip is promised for.
RoundTripTree ==
  \A n \in BuiltNodes :
    type[n] = text =>
      /\ IsPlainText(value[n])
      /\ nextNode[n] # null => type[nextNode[n]] # text

\* No attribute value of the tree built holds a character that escape
\* replaces.
PlainAttributes ==
  \A n \in BuiltNodes :
    type[n] = tag =>
      \A i \in DOMAIN attributes[n] :
        \A k \in DOMAIN attributes[n][i][2] :
          attributes[n][i][2][k] \notin pattern_escape

\* stringify (tree, 0) was parsed again, and the parsed tree was formatted.
Reparsed == Called("parse") /\ input # <<>>
Restringified == Called("stringify") /\ call.node # builtRoot

RoundTrip_C19 ==
  /\ Reparsed =>
       /\ thrown = "none" /\ result.is = "UXMLNode"
       /\ SameTree(builtRoot, result.root)
  /\ Restringified => result = input

\* C19: with indentation off the round trip is exact: for a tree built with
\* the factories and append, with Text values that are plain and never
\* adjacent, parse (stringify (tree, 0)) has the same tags, attribute
\* values, text values and order, and its stringify (.., 0) is the same
\* string.
C19_RoundTripIsExact == RoundTripTree => RoundTrip_C19

\* The same for the trees whose attribute values hold none of < > " ' &.
OnPlainAttributes_C19 == (RoundTripTree /\ PlainAttributes) => RoundTrip_C19

\* A step that is a call of stringify on the tree built.
Stringifies == call = NoCall /\ call'.op = "stringify"

\* The sub nodes of n that are no Text.
NoText(subs) == SelectSeq(subs, LAMBDA c : type[c] # text)

\* format may strip the Text of n: stripping is on, every Text sub node of
\* n is white space and no sub node is Cdata.
MayStrip(n, indent) ==
  /\ indent # 0
  /\ \A i \in DOMAIN SubNodes(n) :
       /\ type[SubNodes(n)[i]] = text => ofSpace(value[SubNodes(n)[i]])
       /\ type[SubNodes(n)[i]] # cdata

\* C20: formatting takes out of the tree only direct Text sub nodes that are
\* white space, only from tags all of whose Text sub nodes are white space
\* and none of whose sub nodes is Cdata, and only for an indent width other
\* than 0; every other node keeps its name, value, attributes, parent and
\* place among the sub nodes, and for indent width 0 nothing changes.
C20_FormatStripsOnlyWhiteSpace ==
  [][Stringifies =>
       /\ type' = type /\ name' = name /\ value' = value
       /\ attributes' = attributes
       /\ \A n \in DOMAIN type :
            type[n] = tag =>
              \/ SubNodes(n)' = SubNodes(n)
              \/ /\ MayStrip(n, call'.num)
                 /\ SubNodes(n)' = NoText(SubNodes(n))
       /\ \A n \in DOMAIN type :
            superNode'[n] # superNode[n] =>
              type[n] = text /\ ofSpace(value[n]) /\ superNode'[n] = null
       /\ call'.num = 0 => Store' = Store]_vars

\* A white space Text was taken out of the root, and the Text "t" of another
\* tag is where it was.
C20_Witness ==
  /\ Called("stringify") /\ call.num = 2 /\ call.node = builtRoot
  /\ \E n \in DOMAIN type :
       /\ type[n] = text /\ value[n] = <<32>> /\ superNode[n] = null
  /\ \E n \in DOMAIN type :
       /\ type[n] = text /\ value[n] = S(<<"t">>)
       /\ superNode[n] # null /\ superNode[superNode[n]] = builtRoot

\* A step that is the second of two calls of stringify with the same
\* arguments.
StringifiesAgain == call.op = "stringify" /\ calls = 1 /\ calls' = 2

\* C21: a second call of stringify with the same node and indent returns
\* the string the first call returned and takes no node out of the tree.
C21_FormatIsIdempotent ==
  [][StringifiesAgain => (result' = result /\ Store' = Store)]_vars

\* The first call took a white space Text out of the tree, and the second
\* call has returned.
C21_Witness ==
  /\ Called("stringify") /\ calls = 2 /\ call.num = 2
  /\ \E n \in DOMAIN type :
       type[n] = text /\ n # builtRoot /\ superNode[n] = null
  /\ \E n \in DOMAIN type : type[n] = tag /\ superNode[n] = builtRoot
(* ---- C22: a document is not formatted with omitSelf or noIndentFirst --- *)
\* A call of stringify on a document with omitSelf or noIndentFirst set.
FormatsDocument ==
  /\ call = NoCall /\ call'.op = "stringify"
  /\ call'.is = "UXMLDocument"
  /\ call'.opts.omitSelf \/ call'.opts.noIndentFirst

\* C22: formatting a UXMLDocument with omitSelf or noIndentFirst set throws
\* RangeError, whatever the indent: nothing is returned and no node of the
\* tree is touched, the white space Text children included.
C22_DocumentOptionsAreRefused ==
  [][FormatsDocument =>
       /\ thrown' = "RangeError"
       /\ result' = Nothing
       /\ Store' = Store]_vars

\* Such a call was made with indent 2 on a tree whose root holds white space
\* Text and nothing that keeps it from being indented.
C22_Witness ==
  /\ Called("stringify") /\ call.is = "UXMLDocument" /\ call.num = 2
  /\ call.opts.omitSelf
  /\ thrown = "RangeError"
  /\ canIndentScan(Store, firstNode[builtRoot])
  /\ \E n \in DOMAIN type :
       type[n] = text /\ superNode[n] = builtRoot /\ ofSpace(value[n])

(* ---- C23: the end of the root element ends the parse ------------------- *)
\* The end of the root element has been consumed: this.pos is set.
RootEnded == parser.thisPos > 0

\* C23: once the closing tag or the self-closing end of the root element is
\* consumed the parse ends without failing, whatever follows in the input:
\* the main loop is over, nothing is thrown, the root is what was being
\* parsed, parse returns something, and the pos field of the parser is the
\* index right after the '>' that closed the root.
C23_RootEndStopsTheParse ==
  RootEnded =>
    /\ parser.ret /\ thrown = "none"
    /\ parser.pos = Len(input)
    /\ parser.thisPos <= Len(input)
    /\ input[parser.thisPos] = chrGT
    /\ parser.currNode = parser.root /\ superNode[parser.root] = null
    /\ Parsed => result # Nothing

\* A parse returned its root although a lone '<' follows the root's end.
C23_Witness ==
  /\ Parsed /\ thrown = "none" /\ RootEnded
  /\ result.is = "UXMLNode"
  /\ parser.thisPos < Len(input)
  /\ input[Len(input)] = chrLT

(* ---- C24: the names the parser accepts --------------------------------- *)
\* The rule of the claim: a name-start character, then name characters,
\* with at most one ':' that is neither first nor last.
IsNameStart(c) ==
  \/ 65 <= c /\ c <= 90
  \/ 97 <= c /\ c <= 122
  \/ c = 95
  \/ c >= 128
IsNameChar(c) == IsNameStart(c) \/ (48 <= c /\ c <= 57) \/ c = 45 \/ c = 46
IsName(nm) ==
  /\ nm # <<>>
  /\ IsNameStart(nm[1])
  /\ \A i \in 2 .. Len(nm) :
       \/ IsNameChar(nm[i])
       \/ nm[i] = chrCL /\ i < Len(nm)
  /\ Cardinality({i \in DOMAIN nm : nm[i] = chrCL}) <= 1

\* The input is an element or an attribute with the name nm.
HasName(nm) == input = InTag(nm) \/ input = InAttr(nm)

\* C24: the parse of an element or attribute named nm succeeds exactly when
\* nm is non-empty, starts with a letter, '_' or a non-ASCII character and
\* goes on with those, digits, '-' and '.', with at most one internal ':'.
C24_NamesFollowTheRule ==
  Parsed =>
    \A nm \in NameStrings : HasName(nm) => (thrown = "none" <=> IsName(nm))

(* ---- C25: nextTag, previousTag and superTag ---------------------------- *)
\* The nodes after n and before n in its child list, nearest first, and the
\* nodes above n, nearest first.
Following(h, n) == Walk(h.nextNode, h.nextNode[n], Cardinality(Nodes))
Preceding(h, n) == Walk(h.previousNode, h.previousNode[n], Cardinality(Nodes))
Above(h, n) == Walk(h.superNode, h.superNode[n], Cardinality(Nodes))

TagsOf(seq) == SelectSeq(seq, LAMBDA c : type[c] = tag)
NthOrNull(seq, f) == IF f <= Len(seq) THEN seq[f] ELSE nullNode

\* What the claim says a call with the filter returns for the receiver n,
\* the nodes in its direction being seq.
Filtered(n, seq, filter) ==
  IF IsNumber(filter)
  THEN IF filter.num = 0 THEN n ELSE NthOrNull(seq, filter.num)
  ELSE NthOrNull(Named(seq, filter.str), 1)

TagFilters == {Num(f) : f \in 0 .. MaxCount} \cup {Str(str) : str \in Names}

\* nextTag, previousTag and superTag of the receiver n do as the claim says.
TagNavigation(n) ==
  /\ Following(Now, n) # Endless
  /\ Preceding(Now, n) # Endless
  /\ Above(Now, n) # Endless
  /\ \A filter \in TagFilters :
       /\ navigateTag(Now, n, 1, filter)
            = Filtered(n, TagsOf(Following(Now, n)), filter)
       /\ navigateTag(Now, n, -1, filter)
            = Filtered(n, TagsOf(Preceding(Now, n)), filter)
       /\ navigateTag(Now, n, 0, filter) = Filtered(n, Above(Now, n), filter)

\* C25: for an integer f >= 1 nextTag(f) and previousTag(f) return the f-th
\* following and preceding sibling that is a Tag, for f = 0 the receiver,
\* for a string the nearest such Tag of that name and never the receiver;
\* superTag(f) returns the f-th node above and the nearest one above of that
\* name; each returns nullNode when there is no such node.
C25_TagNavigationSkipsAndCounts ==
  call = NoCall => \A n \in Nodes : TagNavigation(n)

\* The same statement for a forest: it holds there, so every violation
\* above is a call on links that an earlier append or insert has broken.
OnForest_C25 ==
  (call = NoCall /\ WellFormed(Now)) => \A n \in Nodes : TagNavigation(n)

(* ---- C26: the white space of a Text node ------------------------------- *)
\* A step of the main loop that read a text run without failing, the run it
\* read, and the Text node it made, if it made one.
ReadsText ==
  /\ InMainLoop
  /\ parser'.token = tknText /\ parser'.ret /\ thrown' = "none"
SourceRun == substring(input, parser'.p, parser'.pos)
MakesText == DOMAIN type' # DOMAIN type
NewText == value'[NewId(Store)]
NoEntities == \A i \in DOMAIN input : input[i] # chrAM

\* The container has no child yet; the run is followed by a closing tag.
AtStart == size[parser.currNode] = 0
BeforeClosingTag == charCodeAt(input, parser'.pos + 1) = chrSL

\* C26: in an input without entities every Text node made is non-empty, has
\* no tab, newline or carriage return and no two spaces in a row; made as
\* the first child it does not begin with a space, made of a run that its
\* container's closing tag follows it does not end with one; and a run of
\* white space alone in either position makes no node.
C26_TextIsTrimmedAndCollapsed ==
  [][(ReadsText /\ NoEntities) =>
       /\ MakesText =>
            /\ type'[NewId(Store)] = text
            /\ NewText # <<>>
            /\ \A i \in DOMAIN NewText : NewText[i] \notin {9, 10, 13}
            /\ \A i \in 1 .. Len(NewText) - 1 :
                 ~(NewText[i] = 32 /\ NewText[i + 1] = 32)
            /\ AtStart => NewText[1] # 32
            /\ BeforeClosingTag => NewText[Len(NewText)] # 32
       /\ (ofSpace(SourceRun) /\ (AtStart \/ BeforeClosingTag)) => ~MakesText
    ]_vars

\* A parse returned a tree with a Text node "t t" made of a run with a tab
\* and spaces around and inside it, between the start of its container and
\* the closing tag.
C26_Witness ==
  /\ Parsed /\ thrown = "none"
  /\ \E i \in 1 .. Len(input) : input[i] = 9
  /\ \E n \in DOMAIN type :
       /\ type[n] = text /\ value[n] = <<116, 32, 116>>
       /\ previousNode[n] = null /\ nextNode[n] = null
  /\ Len(input) = 11

(* ---- C27: one space for a gap between siblings ------------------------- *)
\* The run read has text in it, white space before it, white space after
\* it; the child made last in the container is a Tag.
HasText == ~ofSpace(SourceRun)
GapBefore == SourceRun # <<>> /\ Head(SourceRun) <= 32
GapAfter == SourceRun # <<>> /\ SourceRun[Len(SourceRun)] <= 32
AfterTag ==
  /\ lastNode[parser.currNode] # null
  /\ type[lastNode[parser.currNode]] = tag

\* C27: white space between a Tag and the text run after it, and between a
\* text run and the tag, comment or section after it, is one space at that
\* end of the Text node, never none and never two, whatever white space the
\* earlier siblings had; the start of the container and the place before its
\* closing tag excepted.
C27_GapIsOneSpace ==
  [][(ReadsText /\ NoEntities /\ HasText) =>
       /\ MakesText
       /\ (GapBefore /\ AfterTag) =>
            NewText[1] = 32 /\ NewText[2] # 32
       /\ (GapAfter /\ ~BeforeClosingTag) =>
            /\ NewText[Len(NewText)] = 32
            /\ NewText[Len(NewText) - 1] # 32
    ]_vars

\* The same statement for the runs read while wspaceTrail is false: it holds
\* there.
OnClearFlag_C27 ==
  [][(ReadsText /\ NoEntities /\ HasText /\ ~parser.wspaceTrail) =>
       /\ MakesText
       /\ (GapBefore /\ AfterTag) =>
            NewText[1] = 32 /\ NewText[2] # 32
       /\ (GapAfter /\ ~BeforeClosingTag) =>
            /\ NewText[Len(NewText)] = 32
            /\ NewText[Len(NewText) - 1] # 32
    ]_vars

(* ---- C28: the instructions of a document ------------------------------- *)
\* str begins with the characters of head and ends with those of tail.
BeginsWith(str, head) ==
  Len(str) >= Len(head) /\ SubSeq(str, 1, Len(head)) = head
EndsWith(str, tail) ==
  /\ Len(str) >= Len(tail)
  /\ SubSeq(str, Len(str) - Len(tail) + 1, Len(str)) = tail

\* A complete instruction: <?...?> or <!...>.
IsInstruction(str) ==
  \/ BeginsWith(str, <<chrLT, chrAK>>) /\ EndsWith(str, <<chrAK, chrGT>>)
  \/ BeginsWith(str, <<chrLT, chrEX>>) /\ EndsWith(str, <<chrGT>>)

\* C28: every entry of the pi list of a parsed document is a complete
\* instruction, '<?' to '?>' or '<!' to '>', so that the string stringify
\* makes of the document is parsed to the same document again.
C28_InstructionsAreComplete ==
  (Parsed /\ thrown = "none" /\ result.is = "UXMLDocument") =>
    \A i \in DOMAIN result.pi : IsInstruction(result.pi[i])

(* ---- C29: the Null node is never linked -------------------------------- *)
LinkFields ==
  {"superNode", "previousNode", "nextNode", "firstNode", "lastNode"}

\* The links of nullNode are null and no link of any node is nullNode.
NullIsApart ==
  \A f \in LinkFields :
    /\ Now[f][nullNode] = null
    /\ \A n \in Nodes : Now[f][n] # nullNode

\* append or insert was called with nullNode as the child or the reference.
PassesNull ==
  /\ call.op \in {"append", "insert"}
  /\ call.node = nullNode \/ call.ref = nullNode

\* The links and the size of the receiver are those before the call.
ReceiverIsAsBefore ==
  \A f \in LinkFields \cup {"size"} : Now[f][call.self] = old[f][call.self]

\* C29: the links of the Null node stay null and no link ever refers to it;
\* append and insert fail when the child or the reference is the Null node,
\* and those calls and remove(nullNode) leave the links and the size of the
\* receiver as they were.
C29_NullNodeIsNeverLinked ==
  /\ NullIsApart
  /\ PassesNull =>
       /\ thrown \in {"TypeError", "RangeError"}
       /\ ReceiverIsAsBefore
  /\ (call.op = "remove" /\ call.node = nullNode) => ReceiverIsAsBefore

\* insert(nullNode) was called on a Tag that has children, and failed.
C29_Witness ==
  /\ Called("insert") /\ call.node = nullNode /\ call.ref = null
  /\ call.self \in Tags /\ size[call.self] >= 1
  /\ thrown = "TypeError"

(* ---- C30: the iterators ------------------------------------------------ *)
\* C30: on a tree that is not changed meanwhile, nodes() of a Tag yields its
\* direct children, each once, from firstNode to lastNode, size of them in
\* all; tags() yields those that are Tags and tags(name) those Tags of the
\* name; every call of the iterator starts from the first again.
C30_IteratorsYieldTheChildren ==
  call = NoCall =>
    \A p \in Tags :
      LET ns == nodes(Now, p)
      IN /\ ns # <<diverges>>
         /\ ns = Forward(Now, p)
         /\ Len(ns) = size[p]
         /\ \A n \in Nodes : superNode[n] = p <=> Occurrences(ns, n) = 1
         /\ \A i \in DOMAIN ns : Occurrences(ns, ns[i]) = 1
         /\ tags(Now, p, "") = TagsOf(ns)
         /\ \A str \in Names : tags(Now, p, str) = Named(ns, str)

\* The same statement for a forest: it holds there.
OnForest_C30 == WellFormed(Now) => C30_IteratorsYieldTheChildren

(* ---- C31: the parent links are acyclic --------------------------------- *)
\* C31: whatever append and insert calls were made, those that attach a tag
\* to itself or below itself included, no node is above itself along
\* superNode and no node is its own previous or next sibling.
C31_ParentLinksStayAcyclic ==
  \A n \in Nodes :
    /\ n \notin Ancestors(Now, n, Cardinality(Nodes))
    /\ previousNode[n] # n
    /\ nextNode[n] # n

(* ---- C32: iteration while the loop body changes the tree --------------- *)
\* The loop over self.nodes () is over without an exception.
IterationIsOver == call.op = "nodes" /\ isNull(call.node) /\ thrown = "none"

\* C32: when the body of a loop over nodes () detaches the child just
\* yielded, or appends it to another tag, the loop still yields every child
\* the receiver had when it began, each once; stated for a loop that began
\* on a forest.
C32_IterationLosesNoChild ==
  (IterationIsOver /\ WellFormed(old)) =>
    \A n \in Nodes :
      old.superNode[n] = call.self => Occurrences(result, n) = 1

\* The same statement for a loop whose body changes nothing, that is, for
\* a loop that leaves the links as they were when it began: it holds.
OnKeep_C32 ==
  (IterationIsOver /\ WellFormed(old) /\ Heap = old) =>
    result = Forward(old, call.self)

====
